---- MODULE Spec2Model ----
(***************************************************************************)
(* TRDPSimulator: the in-process loopback transport (StubTrdpStackAdapter) *)
(* as a state machine.  The registration tables, the session table and the *)
(* session counter are the adapter's members; every public operation is an *)
(* action.  An operation that releases the adapter's mutex before it calls *)
(* handlers is split at that point: the part under the lock is one atomic  *)
(* step, every handler invocation after it is a step of its own, so other  *)
(* threads can run in between exactly where the code allows it.            *)
(***************************************************************************)
EXTENDS Integers, Sequences, FiniteSets, TLC

VARIABLES
    pdPublishers_,   \* name -> [config, sequenceCounter]   (unordered_map)
    pdSubscribers_,  \* sequence of [config, handler]       (vector)
    mdSenders_,      \* name -> [config, replyHandler]      (unordered_map)
    mdListeners_,    \* sequence of [config, handler]       (vector)
    mdSessions_,     \* sessionId -> [senderName, replyHandler]
    nextSessionId_,  \* std::atomic<uint32_t>, as <<high 16 bits, low 16 bits>>
    pc,              \* per thread: where it is inside a transport call
    pdCall,          \* per thread: locals of its publish_pd call
    mdCall,          \* per thread: locals of its send_md_request / send_md_reply call
    pubOrdinal,      \* history: publishes of a name since it was registered
    requests,        \* history: one record per send_md_request that got a session id
    bursts,          \* history: number of request bursts taken
    running_,        \* Simulator: std::atomic<bool>
    cleanedUp_,      \* Simulator: bool, read and written without a lock
    metrics_,        \* RuntimeMetrics: flags, adapter state string, counters
    adapter_,        \* the transport as the simulator sees it: what is registered
    pdWorkers_,      \* Simulator: vector of PdPublisherWorker
    mdWorkers_,      \* Simulator: vector of MdSenderWorker
    eventThread_,    \* Simulator: the poll thread
    simPc,           \* per calling thread: where it is inside run() or stop()
    simCall,         \* per calling thread: locals of its stop() call
    hist,            \* history of the run() and stop() calls
    resolved,        \* load_payload: the last call, its argument and its outcome
    worker_,         \* one PdPublisherWorker or MdSenderWorker: its members
    wkPc,            \* per thread: where it is inside a worker operation
    wkCall,          \* per thread: locals of its worker operation
    wkHist,          \* history of the worker: what was handed to the transport
    rm_,             \* RuntimeMetrics: mutex_, flags, adapter state, the four maps
    rmPc,            \* per thread: where it is inside a metrics operation
    rmCall,          \* per thread: locals of its metrics operation
    rmHist,          \* history of the metrics: completed calls, snapshots returned
    loaded,          \* the configuration loader: the last call and its outcome
    mutex_,          \* the transport's std::mutex: the thread that holds it
    pdRun,           \* Simulator::run with PD endpoints: how far it has come
    web_             \* WebApplication: the simulator's flags, thread and callers

\* The loopback transport
stubVars == <<pdPublishers_, pdSubscribers_, mdSenders_, mdListeners_, mdSessions_,
              nextSessionId_, pc, pdCall, mdCall, pubOrdinal, requests, bursts>>

\* The simulator
simVars == <<running_, cleanedUp_, metrics_, adapter_, pdWorkers_, mdWorkers_,
             eventThread_, simPc, simCall, hist>>

\* Payload resolution, one cyclic worker, the metrics aggregator
unitVars == <<resolved, worker_, wkPc, wkCall, wkHist, rm_, rmPc, rmCall, rmHist>>

\* The configuration loader, the transport's mutex where it is explicit, the
\* run with PD endpoints, the web application
appVars == <<loaded, mutex_, pdRun, web_>>

vars == <<pdPublishers_, pdSubscribers_, mdSenders_, mdListeners_, mdSessions_,
          nextSessionId_, pc, pdCall, mdCall, pubOrdinal, requests, bursts,
          running_, cleanedUp_, metrics_, adapter_, pdWorkers_, mdWorkers_,
          eventThread_, simPc, simCall, hist,
          resolved, worker_, wkPc, wkCall, wkHist, rm_, rmPc, rmCall, rmHist,
          loaded, mutex_, pdRun, web_>>

\* What a step of one component leaves alone
nonStubVars == <<simVars, unitVars, appVars>>
nonSimVars == <<stubVars, unitVars, appVars>>
nonUnitVars == <<stubVars, simVars, appVars>>
nonAppVars == <<stubVars, simVars, unitVars>>

pdVars == <<pdPublishers_, pdSubscribers_, pdCall, pubOrdinal>>
mdVars == <<mdSenders_, mdListeners_, mdSessions_, nextSessionId_, mdCall,
            requests, bursts>>

-----------------------------------------------------------------------------
(* Bounds of the model *)

MaxSubscribers == 2
MaxListeners == 1
MaxSequence == 2
MaxRequests == 2
MaxBursts == 1
MaxRuns == 1
MaxStops == 2
MaxSeqRuns == 2
MaxSeqStops == 3
MaxWorkers == 2
MaxHexLen == 4
MaxWorkerOps == 4
MaxPublishes == 2
MaxMetricOps == 4
MaxSnapshots == 2
MaxElements == 2
MaxMatchListeners == 2

Threads == {"t1", "t2"}
PdCallers == {"t1"}
MdRequesters == {"t1"}

\* An empty std::function
NoHandler == "no-handler"

-----------------------------------------------------------------------------
(* Small helpers on sequences and functions *)

\* The map m with key k bound to v (insert or overwrite: operator[] then assign)
MapPut(m, k, v) == [x \in DOMAIN m \cup {k} |-> IF x = k THEN v ELSE m[x]]

\* The map m without key k (unordered_map::erase)
MapErase(m, k) == [x \in DOMAIN m \ {k} |-> m[x]]

EmptyMap == [x \in {} |-> 0]

fallback_endpoint(name, ip) == IF ip = "" THEN name ELSE ip

-----------------------------------------------------------------------------
(* Process data *)

PubNames == {"P1", "P2"}
Payloads == {<<1>>, <<2, 3>>}

\* Publisher configurations offered to register_pd_publisher
PdPublisherConfigs(name) ==
    {[name |-> name, comId |-> c, sourceIp |-> "", destIp |-> "A"] :
        c \in IF name = "P1" THEN {1} ELSE {1, 2}}

\* The handler the simulator attaches to a subscriber: it captures the name
PdHandlerOf(name) == "onPd:" \o name

\* Subscribers offered to register_pd_subscriber: configuration and handler
PdSubscriberOffers ==
    { [config |-> [name |-> "SubA", comId |-> 1, enableComIdFiltering |-> TRUE,
                   sourceIp |-> "A", destIp |-> ""],
       handler |-> PdHandlerOf("SubA")],
      [config |-> [name |-> "SubB", comId |-> 2, enableComIdFiltering |-> TRUE,
                   sourceIp |-> "", destIp |-> ""],
       handler |-> PdHandlerOf("SubB")],
      [config |-> [name |-> "SubC", comId |-> 2, enableComIdFiltering |-> FALSE,
                   sourceIp |-> "", destIp |-> ""],
       handler |-> PdHandlerOf("SubC")],
      [config |-> [name |-> "SubD", comId |-> 0, enableComIdFiltering |-> TRUE,
                   sourceIp |-> "", destIp |-> ""],
       handler |-> NoHandler] }

\* The address strings and ComIds the matching is exercised on
Ips == {"", "A", "B"}
ComIds == {0, 1, 2}

\* Every publisher configuration over Ips and ComIds, for one name
AllPdPublisherConfigs ==
    {[name |-> "P1", comId |-> c, sourceIp |-> s, destIp |-> d] :
        c \in ComIds, s \in Ips, d \in Ips}

\* Every subscriber configuration over Ips and ComIds, for one name
AllPdSubscriberConfigs ==
    {[name |-> "SubA", comId |-> c, enableComIdFiltering |-> f,
      sourceIp |-> s, destIp |-> d] :
        c \in ComIds, f \in BOOLEAN, s \in Ips, d \in Ips}

\* The same predicate with the enableComIdFiltering flag ignored
matches_pd_subscription_flag_ignored(subscriber, publisher) ==
    IF subscriber.comId # 0 /\ subscriber.comId # publisher.comId
    THEN FALSE
    ELSE IF subscriber.sourceIp # "" /\ publisher.destIp # ""
               /\ subscriber.sourceIp # publisher.destIp
    THEN FALSE
    ELSE IF subscriber.destIp # "" /\ publisher.sourceIp # ""
               /\ subscriber.destIp # publisher.sourceIp
    THEN FALSE
    ELSE TRUE

matches_pd_subscription(subscriber, publisher) ==
    IF subscriber.enableComIdFiltering /\ subscriber.comId # 0
          /\ subscriber.comId # publisher.comId
    THEN FALSE
    ELSE IF subscriber.sourceIp # "" /\ publisher.destIp # ""
               /\ subscriber.sourceIp # publisher.destIp
    THEN FALSE
    ELSE IF subscriber.destIp # "" /\ publisher.sourceIp # ""
               /\ subscriber.destIp # publisher.sourceIp
    THEN FALSE
    ELSE TRUE

IdlePdCall ==
    [name |-> "", data |-> <<>>, result |-> "none", targets |-> <<>>, idx |-> 0,
     message |-> <<>>, invoked |-> <<>>, publisher |-> <<>>, subscribers |-> <<>>,
     ordinal |-> 0]

\* register_pd_publisher: operator[] then assignment, under the lock
RegisterPdPublisher(config) ==
    /\ pdPublishers_' = MapPut(pdPublishers_, config.name,
                               [config |-> config, sequenceCounter |-> 0])
    /\ pubOrdinal' = [pubOrdinal EXCEPT ![config.name] = 0]
    /\ UNCHANGED <<pdSubscribers_, pdCall, pc, mdVars>>

\* register_pd_subscriber: push_back under the lock
RegisterPdSubscriber(config, handler) ==
    /\ Len(pdSubscribers_) < MaxSubscribers
    /\ pdSubscribers_' = Append(pdSubscribers_, [config |-> config, handler |-> handler])
    /\ UNCHANGED <<pdPublishers_, pdCall, pubOrdinal, pc, mdVars>>

\* The matching subscribers, latest registration first
PdTargetsReversed(subscribers, publisherConfig) ==
    LET m == SelectSeq(subscribers,
                       LAMBDA s : matches_pd_subscription(s.config, publisherConfig))
    IN  [i \in 1..Len(m) |-> m[Len(m) + 1 - i]]

\* The subscribers publish_pd copies into targets, in registration order
PdTargets(subscribers, publisherConfig) ==
    SelectSeq(subscribers, LAMBDA s : matches_pd_subscription(s.config, publisherConfig))

\* Post-increment instead of pre-increment: the value before the increment
PdNextSequencePost(state) == state.sequenceCounter

\* The sequence number publish_pd takes: ++it->second.sequenceCounter
PdNextSequence(state) == state.sequenceCounter + 1

\* operator[] instead of find: a missing name gets a default entry
PdLookupMissInserts(table, name) ==
    MapPut(table, name,
           [config |-> [name |-> "", comId |-> 0, sourceIp |-> "", destIp |-> ""],
            sequenceCounter |-> 0])

\* The table after pdPublishers_.find(name) found nothing (lines 75-76)
PdLookupMiss(table, name) == table

\* publish_pd, the block under the lock (lines 73-88) and the early return
PublishPdLocked(t, publisherName, data) ==
    /\ pc[t] = "idle"
    /\ IF publisherName \notin DOMAIN pdPublishers_
       THEN \* throw std::runtime_error("Unknown PD publisher")
            /\ pdCall' = [pdCall EXCEPT ![t] =
                  [IdlePdCall EXCEPT !.name = publisherName, !.data = data,
                                     !.result = "error"]]
            /\ pc' = [pc EXCEPT ![t] = "pd_done"]
            /\ pdPublishers_' = PdLookupMiss(pdPublishers_, publisherName)
            /\ UNCHANGED pubOrdinal
       ELSE LET state == pdPublishers_[publisherName]
                sequence == PdNextSequence(state)
                targets == PdTargets(pdSubscribers_, state.config)
                message == [endpoint |-> fallback_endpoint(publisherName,
                                                           state.config.sourceIp),
                            comId |-> state.config.comId,
                            payload |-> data,
                            sequenceCounter |-> sequence]
            IN  /\ state.sequenceCounter < MaxSequence
                /\ pdPublishers_' = [pdPublishers_ EXCEPT
                                        ![publisherName].sequenceCounter = sequence]
                /\ pubOrdinal' = [pubOrdinal EXCEPT ![publisherName] = @ + 1]
                /\ pdCall' = [pdCall EXCEPT ![t] =
                      [name |-> publisherName, data |-> data, result |-> "ok",
                       targets |-> targets, idx |-> 1,
                       message |-> IF targets = <<>> THEN <<>> ELSE message,
                       invoked |-> <<>>,
                       publisher |-> state.config,
                       subscribers |-> pdSubscribers_,
                       ordinal |-> pubOrdinal[publisherName] + 1]]
                /\ pc' = [pc EXCEPT ![t] =
                             IF targets = <<>> THEN "pd_done" ELSE "pd_deliver"]
    /\ UNCHANGED <<pdSubscribers_, mdVars>>

\* publish_pd, one turn of the delivery loop (lines 100-104), outside the lock
PublishPdDeliver(t) ==
    /\ pc[t] = "pd_deliver"
    /\ LET c == pdCall[t]
           subscriber == c.targets[c.idx]
           invoked == IF subscriber.handler # NoHandler
                      THEN Append(c.invoked, [handler |-> subscriber.handler,
                                              message |-> c.message])
                      ELSE c.invoked
       IN  /\ pdCall' = [pdCall EXCEPT ![t].invoked = invoked, ![t].idx = c.idx + 1]
           /\ pc' = [pc EXCEPT ![t] =
                        IF c.idx = Len(c.targets) THEN "pd_done" ELSE "pd_deliver"]
    /\ UNCHANGED <<pdPublishers_, pdSubscribers_, pubOrdinal, mdVars>>

\* publish_pd returns (or its exception reaches the caller)
PublishPdReturn(t) ==
    /\ pc[t] = "pd_done"
    /\ pc' = [pc EXCEPT ![t] = "idle"]
    /\ pdCall' = [pdCall EXCEPT ![t] = IdlePdCall]
    /\ UNCHANGED <<pdPublishers_, pdSubscribers_, pubOrdinal, mdVars>>

\* shutdown that forgets to clear the session table
ShutdownKeepsSessions ==
    /\ pdPublishers_' = EmptyMap
    /\ pdSubscribers_' = <<>>
    /\ mdSenders_' = EmptyMap
    /\ mdListeners_' = <<>>
    /\ pubOrdinal' = [n \in PubNames |-> 0]
    /\ UNCHANGED <<mdSessions_, requests, nextSessionId_, pc, pdCall, mdCall, bursts>>

\* shutdown: clear every table under the lock
Shutdown ==
    /\ pdPublishers_' = EmptyMap
    /\ pdSubscribers_' = <<>>
    /\ mdSenders_' = EmptyMap
    /\ mdListeners_' = <<>>
    /\ mdSessions_' = EmptyMap
    /\ pubOrdinal' = [n \in PubNames |-> 0]
    /\ requests' = [i \in DOMAIN requests |-> [requests[i] EXCEPT !.dropped = TRUE]]
    /\ UNCHANGED <<nextSessionId_, pc, pdCall, mdCall, bursts>>


-----------------------------------------------------------------------------
(* Message data: the session counter and the session id *)

SessionIdBits == 32
MdSessionIdSize == 16

\* A std::uint32_t is kept as <<high half, low half>>, each below 2^16
HalfWord == 2 ^ (SessionIdBits \div 2)

\* value + 1 on std::uint32_t (nextSessionId_++ wraps at 2^32)
U32Inc(v) ==
    IF v[2] = HalfWord - 1 THEN <<(v[1] + 1) % HalfWord, 0>> ELSE <<v[1], v[2] + 1>>

\* a + b on std::uint32_t
U32Add(a, b) ==
    LET lo == a[2] + b[2]
        hi == a[1] + b[1] + (lo \div HalfWord)
    IN  <<hi % HalfWord, lo % HalfWord>>

\* (value >> (8 * index)) & 0xFF on std::uint32_t
U32Byte(v, index) ==
    CASE index = 0 -> v[2] % 256
      [] index = 1 -> v[2] \div 256
      [] index = 2 -> v[1] % 256
      [] index = 3 -> v[1] \div 256
      [] OTHER -> 0

\* make_session_id: id[size - 1 - index] = byte index of value (big endian);
\* positions are 1-based here, so position p holds byte index size - p
make_session_id(value) ==
    [p \in 1..MdSessionIdSize |-> U32Byte(value, MdSessionIdSize - p)]

\* MdSessionId{}: the value-initialised array of a default MdMessage
ZeroSessionId == [p \in 1..MdSessionIdSize |-> 0]

-----------------------------------------------------------------------------
(* Message data: registration *)

SenderNames == {"S1", "S2", "S3"}
RequestData == {<<5>>}
ReplyData == {<<7>>}
ReplyListenerNames == {"L2"}

\* The reply handler an MD sender worker registers: it captures the sender
MdReplyHandlerOf(name) == "onReply:" \o name

\* Senders offered to register_md_sender: configuration and reply handler
MdSenderOffers ==
    { [config |-> [name |-> "S1", comId |-> 1, replyComId |-> 0, sourceIp |-> "",
                   destIp |-> "", expectReply |-> TRUE],
       handler |-> MdReplyHandlerOf("S1")],
      [config |-> [name |-> "S2", comId |-> 1, replyComId |-> 3, sourceIp |-> "",
                   destIp |-> "B", expectReply |-> FALSE],
       handler |-> MdReplyHandlerOf("S2")],
      [config |-> [name |-> "S3", comId |-> 1, replyComId |-> 0, sourceIp |-> "",
                   destIp |-> "", expectReply |-> TRUE],
       handler |-> NoHandler] }

\* The request handler the simulator attaches to a listener (Simulator::run):
\* it captures the listener's configuration and its resolved reply payload
NoListenerHandler ==
    [present |-> FALSE, name |-> "", autoReply |-> FALSE, replyPayload |-> <<>>]
MdListenerHandlerOf(name, autoReply, replyPayload) ==
    [present |-> TRUE, name |-> name, autoReply |-> autoReply,
     replyPayload |-> replyPayload]

\* Listeners offered to register_md_listener: configuration and handler
MdListenerOffers ==
    { [config |-> [name |-> "L1", comId |-> 0, sourceIp |-> "", destIp |-> "",
                   autoReply |-> TRUE],
       handler |-> MdListenerHandlerOf("L1", TRUE, <<9>>)],
      [config |-> [name |-> "L2", comId |-> 1, sourceIp |-> "C", destIp |-> "",
                   autoReply |-> FALSE],
       handler |-> MdListenerHandlerOf("L2", FALSE, <<>>)],
      [config |-> [name |-> "L3", comId |-> 2, sourceIp |-> "", destIp |-> "",
                   autoReply |-> TRUE],
       handler |-> MdListenerHandlerOf("L3", TRUE, <<9>>)] }

\* A match that also wants the addresses given on both sides
matches_md_listener_both(listener, sender) ==
    /\ ~(listener.comId # 0 /\ listener.comId # sender.comId)
    /\ listener.destIp = sender.destIp
    /\ listener.sourceIp = sender.sourceIp

\* matches_md_listener (lines 252-264)
matches_md_listener(listener, sender) ==
    IF listener.comId # 0 /\ listener.comId # sender.comId
    THEN FALSE
    ELSE IF listener.destIp # "" /\ sender.destIp # ""
               /\ listener.destIp # sender.destIp
    THEN FALSE
    ELSE IF listener.sourceIp # "" /\ sender.sourceIp # ""
               /\ listener.sourceIp # sender.sourceIp
    THEN FALSE
    ELSE TRUE

\* register_md_sender: operator[] then assignment, under the lock
RegisterMdSender(config, handler) ==
    /\ mdSenders_' = MapPut(mdSenders_, config.name,
                            [config |-> config, replyHandler |-> handler])
    /\ UNCHANGED <<mdListeners_, mdSessions_, nextSessionId_, mdCall, requests,
                   bursts, pc, pdVars>>

\* register_md_listener: push_back under the lock, for up to limit listeners
RegisterMdListenerUpTo(config, handler, limit) ==
    /\ Len(mdListeners_) < limit
    /\ mdListeners_' = Append(mdListeners_, [config |-> config, handler |-> handler])
    /\ UNCHANGED <<mdSenders_, mdSessions_, nextSessionId_, mdCall, requests,
                   bursts, pc, pdVars>>

RegisterMdListener(config, handler) ==
    RegisterMdListenerUpTo(config, handler, MaxListeners)

\* Every sender and listener configuration over MatchComIds and MatchIps
MatchComIds == {0, 1, 2}
MatchIps == {"", "A", "B"}
AllMdSenderConfigs ==
    { [name |-> "S1", comId |-> c, replyComId |-> 0, sourceIp |-> s, destIp |-> d,
       expectReply |-> TRUE] : c \in MatchComIds, s \in MatchIps, d \in MatchIps }
AllMdListenerConfigs(name) ==
    { [name |-> name, comId |-> c, sourceIp |-> s, destIp |-> d,
       autoReply |-> FALSE] : c \in MatchComIds, s \in MatchIps, d \in MatchIps }

\* The name of the listener registered at a position
MatchListenerName(position) == IF position = 1 THEN "La" ELSE "Lb"

-----------------------------------------------------------------------------
(* Message data: send_md_request and send_md_reply *)

IdleMdCall ==
    [op |-> "none", result |-> "none", name |-> "", data |-> <<>>,
     expectReply |-> FALSE, replyHandler |-> NoHandler, synthetic |-> <<>>,
     listeners |-> <<>>, idx |-> 0, request |-> <<>>, req |-> 0, reply |-> <<>>,
     registered |-> <<>>, invoked |-> <<>>]

\* History: the handlers a send_md_request call has invoked so far, with the
\* message each was given
NoteInvoked(c, listener) ==
    IF listener.handler.present
    THEN Append(c.invoked, [listener |-> listener.config.name, message |-> c.request])
    ELSE c.invoked

\* History: a send_md_reply call carrying this session id has finished
NoteReplyCall(reqs, sessionId) ==
    [i \in DOMAIN reqs |->
        IF reqs[i].message.sessionId = sessionId
        THEN [reqs[i] EXCEPT !.answered = TRUE] ELSE reqs[i]]

\* History: handler received, through send_md_reply, a reply with this session id
NoteDelivered(reqs, sessionId, handler) ==
    [i \in DOMAIN reqs |->
        IF reqs[i].message.sessionId = sessionId /\ reqs[i].handler = handler
        THEN [reqs[i] EXCEPT !.delivered = @ + 1] ELSE reqs[i]]

\* The listeners send_md_request copies, in registration order
MdTargets(listeners, senderConfig) ==
    SelectSeq(listeners, LAMBDA l : matches_md_listener(l.config, senderConfig))

\* The table after send_md_request has recorded its session (lines 139-141)
RecordSession(sessions, sessionId, senderName, replyHandler) ==
    IF replyHandler # NoHandler
    THEN MapPut(sessions, sessionId,
                [senderName |-> senderName, replyHandler |-> replyHandler])
    ELSE sessions

\* Whether send_md_request makes the synthetic reply (line 156)
MakesSyntheticReply(expectReply, replyHandler) ==
    ~expectReply /\ replyHandler # NoHandler

\* The synthetic reply of send_md_request (lines 157-161)
SyntheticReply(senderConfig, sessionId) ==
    [endpoint |-> IF senderConfig.destIp = "" THEN "stub-listener"
                  ELSE senderConfig.destIp,
     comId |-> IF senderConfig.replyComId = 0 THEN senderConfig.comId
               ELSE senderConfig.replyComId,
     sessionId |-> sessionId,
     payload |-> <<>>]

\* Where send_md_request goes once the listener at position idx is done
AfterListener(c, idx) ==
    IF idx < Len(c.listeners) THEN "md_deliver"
    ELSE IF MakesSyntheticReply(c.expectReply, c.replyHandler) THEN "md_synth"
    ELSE "md_done"

\* send_md_request, the block under the lock (lines 120-142)
SendMdRequestLocked(t, senderName, data) ==
    /\ pc[t] = "idle"
    /\ IF senderName \notin DOMAIN mdSenders_
       THEN \* throw std::runtime_error("Unknown MD sender")
            /\ mdCall' = [mdCall EXCEPT ![t] =
                  [IdleMdCall EXCEPT !.op = "send_md_request", !.name = senderName,
                                     !.data = data, !.result = "error"]]
            /\ pc' = [pc EXCEPT ![t] = "md_done"]
            /\ UNCHANGED <<mdSessions_, nextSessionId_, requests>>
       ELSE LET senderConfig == mdSenders_[senderName].config
                replyHandler == mdSenders_[senderName].replyHandler
                numericSession == nextSessionId_
                sessionId == make_session_id(numericSession)
                listeners == MdTargets(mdListeners_, senderConfig)
                request == [endpoint |-> fallback_endpoint(senderName,
                                                           senderConfig.sourceIp),
                            comId |-> senderConfig.comId,
                            sessionId |-> sessionId,
                            payload |-> data]
                c == [op |-> "send_md_request", result |-> "ok",
                      name |-> senderName, data |-> data,
                      expectReply |-> senderConfig.expectReply,
                      replyHandler |-> replyHandler,
                      synthetic |-> SyntheticReply(senderConfig, sessionId),
                      listeners |-> listeners, idx |-> 1, request |-> request,
                      req |-> Len(requests) + 1, reply |-> <<>>,
                      registered |-> mdListeners_, invoked |-> <<>>]
            IN  /\ Len(requests) < MaxRequests
                /\ nextSessionId_' = U32Inc(nextSessionId_)
                /\ mdSessions_' = RecordSession(mdSessions_, sessionId, senderName,
                                                replyHandler)
                /\ requests' = Append(requests,
                      [sender |-> senderName, handler |-> replyHandler,
                       expectReply |-> senderConfig.expectReply,
                       message |-> request, answered |-> FALSE, delivered |-> 0,
                       synthetic |-> 0, repliedTo |-> {}, dropped |-> FALSE])
                /\ mdCall' = [mdCall EXCEPT ![t] = c]
                /\ pc' = [pc EXCEPT ![t] = AfterListener(c, 0)]
    /\ UNCHANGED <<mdSenders_, mdListeners_, bursts, pdVars>>

\* find_if over mdListeners_ in send_md_reply (lines 188-192): the source IP of
\* the first listener of that name, or that of a default MdListenerConfig
ReplyListenerSourceIp(listenerName) ==
    LET found == {i \in DOMAIN mdListeners_ :
                     mdListeners_[i].config.name = listenerName}
    IN  IF found = {} THEN ""
        ELSE mdListeners_[CHOOSE i \in found : \A j \in found : i <= j].config.sourceIp

\* The reply send_md_reply builds (lines 199-203)
ReplyMessage(listenerName, request, data) ==
    [endpoint |-> fallback_endpoint(listenerName, ReplyListenerSourceIp(listenerName)),
     comId |-> request.comId,
     sessionId |-> request.sessionId,
     payload |-> data]

\* Whether send_md_reply finds a session to answer (lines 181-184, 195-197)
ReplyFindsSession(sessions, sessionId) ==
    sessionId \in DOMAIN sessions /\ sessions[sessionId].replyHandler # NoHandler

\* An erase that removes some pending session when the id names none
ReplyTakeSessionAny(sessions, sessionId) ==
    IF sessionId \in DOMAIN sessions \/ DOMAIN sessions = {}
    THEN MapErase(sessions, sessionId)
    ELSE MapErase(sessions, CHOOSE k \in DOMAIN sessions : TRUE)

\* The table after the locked block of send_md_reply (lines 181-186)
ReplyTakeSession(sessions, sessionId) == MapErase(sessions, sessionId)

\* send_md_request, one turn of the listener loop (lines 150-154).  The handler
\* is the simulator's: an auto-reply listener with a reply payload calls
\* send_md_reply from inside it, whose locked block is part of this step.
SendMdRequestDeliver(t) ==
    /\ pc[t] = "md_deliver"
    /\ LET c == mdCall[t]
           listener == c.listeners[c.idx]
           h == listener.handler
           sid == c.request.sessionId
           replies == h.present /\ h.autoReply /\ h.replyPayload # <<>>
       IN  IF replies /\ ReplyFindsSession(mdSessions_, sid)
           THEN /\ mdSessions_' = ReplyTakeSession(mdSessions_, sid)
                /\ mdCall' = [mdCall EXCEPT ![t].reply =
                      [handler |-> mdSessions_[sid].replyHandler, arg |-> c.req,
                       message |-> ReplyMessage(h.name, c.request, h.replyPayload)],
                      ![t].invoked = NoteInvoked(c, listener)]
                /\ pc' = [pc EXCEPT ![t] = "md_nested"]
                /\ UNCHANGED requests
           ELSE /\ mdSessions_' = IF replies THEN ReplyTakeSession(mdSessions_, sid)
                                  ELSE mdSessions_
                /\ requests' = IF replies THEN NoteReplyCall(requests, sid)
                               ELSE requests
                /\ mdCall' = [mdCall EXCEPT ![t].idx = c.idx + 1,
                                            ![t].invoked = NoteInvoked(c, listener)]
                /\ pc' = [pc EXCEPT ![t] = AfterListener(c, c.idx)]
    /\ UNCHANGED <<mdSenders_, mdListeners_, nextSessionId_, bursts, pdVars>>

\* History: the reply made to request number arg went to this handler, with
\* this session id
NoteRepliedTo(reqs, arg, handler, sessionId) ==
    IF arg \in DOMAIN reqs
    THEN [reqs EXCEPT ![arg].repliedTo = @ \cup {<<handler, sessionId>>}]
    ELSE reqs

\* The reply handler runs (line 204) and send_md_reply returns
InvokeReplyHandler(t, nextPc) ==
    LET r == mdCall[t].reply
        sid == r.message.sessionId
    IN  /\ requests' = NoteReplyCall(
              NoteDelivered(NoteRepliedTo(requests, r.arg, r.handler, sid),
                            sid, r.handler),
              sid)
        /\ pc' = [pc EXCEPT ![t] = nextPc]

\* send_md_reply called by a listener handler: its reply handler runs, nested
\* inside send_md_request, and the listener loop goes on
SendMdRequestNestedReply(t) ==
    /\ pc[t] = "md_nested"
    /\ InvokeReplyHandler(t, AfterListener(mdCall[t], mdCall[t].idx))
    /\ mdCall' = [mdCall EXCEPT ![t].reply = <<>>, ![t].idx = @ + 1]
    /\ UNCHANGED <<mdSenders_, mdListeners_, mdSessions_, nextSessionId_, bursts,
                   pdVars>>

\* send_md_request, the synthetic reply to the sender's own handler (line 162)
SendMdRequestSynthetic(t) ==
    /\ pc[t] = "md_synth"
    /\ LET c == mdCall[t]
       IN  requests' = [requests EXCEPT ![c.req].synthetic = @ + 1]
    /\ pc' = [pc EXCEPT ![t] = "md_erase"]
    /\ UNCHANGED <<mdSenders_, mdListeners_, mdSessions_, nextSessionId_, mdCall,
                   bursts, pdVars>>

\* The erase forgotten: the table is left as it is
EraseSessionForgotten(sessions, sessionId) == sessions

\* mdSessions_.erase(sessionId) after the synthetic reply (line 165)
EraseSession(sessions, sessionId) == MapErase(sessions, sessionId)

\* send_md_request, the erase under the lock after the synthetic reply
\* (lines 164-165)
SendMdRequestErase(t) ==
    /\ pc[t] = "md_erase"
    /\ mdSessions_' = EraseSession(mdSessions_, mdCall[t].request.sessionId)
    /\ pc' = [pc EXCEPT ![t] = "md_done"]
    /\ UNCHANGED <<mdSenders_, mdListeners_, nextSessionId_, mdCall, requests,
                   bursts, pdVars>>

\* send_md_request returns (or its exception reaches the caller)
MdReturn(t) ==
    /\ pc[t] = "md_done"
    /\ pc' = [pc EXCEPT ![t] = "idle"]
    /\ mdCall' = [mdCall EXCEPT ![t] = IdleMdCall]
    /\ UNCHANGED <<mdSenders_, mdListeners_, mdSessions_, nextSessionId_, requests,
                   bursts, pdVars>>

\* send_md_reply called directly, the block under the lock (lines 179-197).
\* request is an MdMessage; arg is the history index of the request it came
\* from (0 for a message no send_md_request produced).
SendMdReplyLocked(t, listenerName, request, arg, data) ==
    /\ pc[t] = "idle"
    /\ LET sid == request.sessionId
           c == [IdleMdCall EXCEPT !.op = "send_md_reply", !.name = listenerName,
                                   !.data = data, !.result = "ok",
                                   !.request = request, !.req = arg]
       IN  IF ReplyFindsSession(mdSessions_, sid)
           THEN /\ mdSessions_' = ReplyTakeSession(mdSessions_, sid)
                /\ mdCall' = [mdCall EXCEPT ![t] = [c EXCEPT !.reply =
                      [handler |-> mdSessions_[sid].replyHandler, arg |-> arg,
                       message |-> ReplyMessage(listenerName, request, data)]]]
                /\ pc' = [pc EXCEPT ![t] = "reply_invoke"]
                /\ UNCHANGED requests
           ELSE /\ mdSessions_' = ReplyTakeSession(mdSessions_, sid)
                /\ requests' = NoteReplyCall(requests, sid)
                /\ UNCHANGED <<mdCall, pc>>
    /\ UNCHANGED <<mdSenders_, mdListeners_, nextSessionId_, bursts, pdVars>>

\* send_md_reply called directly: the reply handler runs (line 204)
SendMdReplyInvoke(t) ==
    /\ pc[t] = "reply_invoke"
    /\ InvokeReplyHandler(t, "idle")
    /\ mdCall' = [mdCall EXCEPT ![t] = IdleMdCall]
    /\ UNCHANGED <<mdSenders_, mdListeners_, mdSessions_, nextSessionId_, bursts,
                   pdVars>>

\* The number of requests one burst makes: 2^32 - 1
BurstLen == <<HalfWord - 1, HalfWord - 1>>

\* BurstLen complete send_md_request calls in a row by one thread, for a sender
\* that has no reply handler while no registered listener matches it: each
\* call takes a session id (line 129), records no session (line 139), reaches
\* no listener and makes no synthetic reply (line 156), so together they only
\* advance nextSessionId_.
SendMdRequestBurst(t, senderName) ==
    /\ pc[t] = "idle"
    /\ bursts < MaxBursts
    /\ senderName \in DOMAIN mdSenders_
    /\ mdSenders_[senderName].replyHandler = NoHandler
    /\ MdTargets(mdListeners_, mdSenders_[senderName].config) = <<>>
    /\ nextSessionId_' = U32Add(nextSessionId_, BurstLen)
    /\ bursts' = bursts + 1
    /\ UNCHANGED <<mdSenders_, mdListeners_, mdSessions_, mdCall, requests,
                   pc, pdVars>>

\* An MdMessage that no send_md_request produced
ForgedRequest ==
    [endpoint |-> "", comId |-> 0, sessionId |-> ZeroSessionId, payload |-> <<>>]

\* The requests a caller of send_md_reply can name: the message of an earlier
\* request (with its history index) or a forged one (index 0)
ReplyArguments ==
    {[arg |-> r, request |-> requests[r].message] : r \in DOMAIN requests}
        \cup {[arg |-> 0, request |-> ForgedRequest]}

-----------------------------------------------------------------------------
(* The simulator: run(), stop(), the workers and the poll thread *)

\* The thread that calls run() and the threads that call stop()
SimThreads == {"main", "s1", "s2"}
Stoppers == {"s1", "s2"}

\* The endpoints of the SimulatorConfig, by name
config_ ==
    [pdSubscribers |-> <<"SubA">>, mdListeners |-> <<"L1">>,
     pdPublishers |-> <<"P1">>, mdSenders |-> <<"S1">>]

\* Adapter state strings of the metrics, as <<prefix, rest>>
StateIdle == <<"Idle", "">>
StateInitializing == <<"Initializing", "">>
StateRunning == <<"Running", "">>
StateStopped == <<"Stopped", "">>
StateInitFailed == <<"Initialization failed", ": initialize threw">>
StateError == <<"Error", ": registration threw">>

\* RuntimeMetrics::reset
MetricsReset ==
    [simulatorRunning |-> FALSE, adapterInitialized |-> FALSE,
     adapterState |-> StateIdle, counted |-> {}]

\* RuntimeMetrics::set_adapter_status
set_adapter_status(m, initialized, state) ==
    [m EXCEPT !.adapterInitialized = initialized, !.adapterState = state]

\* RuntimeMetrics::set_simulator_running
set_simulator_running(m, running) == [m EXCEPT !.simulatorRunning = running]

\* The transport with nothing registered (after construction, after shutdown)
AdapterReleased ==
    [initialized |-> FALSE, pdSubscribers |-> <<>>, mdListeners |-> <<>>,
     pdPublishers |-> <<>>, mdSenders |-> <<>>]

\* A std::thread that is running its function
Active(thread) == thread = "active"

\* A worker as its constructor leaves it
NewWorker(name) == [name |-> name, running |-> FALSE, thread |-> "none", epoch |-> 0]

IdleSimCall == [wasRunning |-> FALSE, priorState |-> <<>>, idx |-> 0, during |-> 0]

\* Thread c walks over a worker vector
Iterating(c) ==
    simPc[c] \in {"s_pd", "s_pd_join", "s_md", "s_md_join", "s_clear_pd",
                  "s_clear_md", "r_start_pd", "r_start_md"}

\* Another thread walks over a worker vector while thread c changes one
RacesOnWorkers(c) == \E d \in SimThreads \ {c} : Iterating(d)

\* A wait that returns on any wake-up
WaitPredicateSpurious(running) == TRUE

\* The predicate of stateCv_.wait (line 115)
WaitPredicate(running) == ~running

\* The cleanup condition of stop() (line 144)
NeedsCleanup(wasRunning, cleanedUp) == wasRunning \/ ~cleanedUp

\* hadError of stop() (lines 175-176)
HadError(priorState) ==
    /\ priorState # <<>>
    /\ priorState # <<"", "">>
    /\ priorState[1] \in {"Error", "Initialization failed"}

\* The value run() stores into running_ (line 62)
RunningAfterInit == TRUE

SimGoto(c, label) == simPc' = [simPc EXCEPT ![c] = label]

-----------------------------------------------------------------------------
(* run() *)

\* run() is entered: setup_logging (lines 37-39)
RunEnter(limit) ==
    /\ simPc["main"] = "idle"
    /\ hist.runs < limit
    /\ SimGoto("main", "r_reset")
    /\ hist' = [hist EXCEPT !.runs = @ + 1, !.lastRun = "running",
                            !.trail = Append(@, "run"),
                            !.stopRequested = FALSE, !.registered = 0,
                            !.reuse = hist.afterFailStop,
                            !.afterFailStop = FALSE]
    /\ UNCHANGED <<running_, cleanedUp_, metrics_, adapter_, pdWorkers_,
                   mdWorkers_, eventThread_, simCall>>
    /\ UNCHANGED nonSimVars

\* metrics_->reset() (line 42)
RunResetMetrics ==
    /\ simPc["main"] = "r_reset"
    /\ metrics_' = MetricsReset
    /\ SimGoto("main", "r_setrun")
    /\ UNCHANGED <<running_, cleanedUp_, adapter_, pdWorkers_, mdWorkers_,
                   eventThread_, simCall, hist>>
    /\ UNCHANGED nonSimVars

\* metrics_->set_simulator_running(true) (line 43)
RunSetSimulatorRunning ==
    /\ simPc["main"] = "r_setrun"
    /\ metrics_' = set_simulator_running(metrics_, TRUE)
    /\ SimGoto("main", "r_setinit")
    /\ UNCHANGED <<running_, cleanedUp_, adapter_, pdWorkers_, mdWorkers_,
                   eventThread_, simCall, hist>>
    /\ UNCHANGED nonSimVars

\* metrics_->set_adapter_status(false, "Initializing") (line 44)
RunSetInitializing ==
    /\ simPc["main"] = "r_setinit"
    /\ metrics_' = set_adapter_status(metrics_, FALSE, StateInitializing)
    /\ SimGoto("main", "r_init")
    /\ UNCHANGED <<running_, cleanedUp_, adapter_, pdWorkers_, mdWorkers_,
                   eventThread_, simCall, hist>>
    /\ UNCHANGED nonSimVars

\* adapter_->initialize(...) returns or throws (lines 48-49, 53)
RunInitialize(ok) ==
    /\ simPc["main"] = "r_init"
    /\ IF ok
       THEN /\ adapter_' = [adapter_ EXCEPT !.initialized = TRUE]
            /\ SimGoto("main", "r_status_running")
       ELSE /\ UNCHANGED adapter_
            /\ SimGoto("main", "r_fail_status")
    /\ UNCHANGED <<running_, cleanedUp_, metrics_, pdWorkers_, mdWorkers_,
                   eventThread_, simCall, hist>>
    /\ UNCHANGED nonSimVars

\* metrics_->set_adapter_status(true, "Running") (line 51)
RunSetRunningStatus ==
    /\ simPc["main"] = "r_status_running"
    /\ metrics_' = set_adapter_status(metrics_, TRUE, StateRunning)
    /\ SimGoto("main", "r_store")
    /\ UNCHANGED <<running_, cleanedUp_, adapter_, pdWorkers_, mdWorkers_,
                   eventThread_, simCall, hist>>
    /\ UNCHANGED nonSimVars

\* The catch of a failed initialize: the adapter status (line 55)
RunInitFailedStatus ==
    /\ simPc["main"] = "r_fail_status"
    /\ metrics_' = set_adapter_status(metrics_, FALSE, StateInitFailed)
    /\ SimGoto("main", "r_fail_run")
    /\ UNCHANGED <<running_, cleanedUp_, adapter_, pdWorkers_, mdWorkers_,
                   eventThread_, simCall, hist>>
    /\ UNCHANGED nonSimVars

\* The catch of a failed initialize: simulatorRunning, then the rethrow
\* (lines 56-58): run() ends with the error
RunInitFailedThrow ==
    /\ simPc["main"] = "r_fail_run"
    /\ metrics_' = set_simulator_running(metrics_, FALSE)
    /\ SimGoto("main", "idle")
    /\ hist' = [hist EXCEPT !.lastRun = "init_failed"]
    /\ UNCHANGED <<running_, cleanedUp_, adapter_, pdWorkers_, mdWorkers_,
                   eventThread_, simCall>>
    /\ UNCHANGED nonSimVars

\* running_.store(true) (line 62)
RunStoreRunning ==
    /\ simPc["main"] = "r_store"
    /\ running_' = RunningAfterInit
    /\ SimGoto("main", "r_uncleaned")
    /\ hist' = [hist EXCEPT !.stopSinceStore = FALSE]
    /\ UNCHANGED <<cleanedUp_, metrics_, adapter_, pdWorkers_, mdWorkers_,
                   eventThread_, simCall>>
    /\ UNCHANGED nonSimVars

\* cleanedUp_ = false (line 63)
RunClearCleanedUp ==
    /\ simPc["main"] = "r_uncleaned"
    /\ cleanedUp_' = FALSE
    /\ SimGoto("main", "r_subs")
    /\ simCall' = [simCall EXCEPT !["main"].idx = 1]
    /\ UNCHANGED <<running_, metrics_, adapter_, pdWorkers_, mdWorkers_,
                   eventThread_, hist>>
    /\ UNCHANGED nonSimVars

\* One turn of the loop over config_.pdSubscribers (lines 66-74)
RunRegisterSubscriber ==
    /\ simPc["main"] = "r_subs"
    /\ LET i == simCall["main"].idx
       IN  IF i <= Len(config_.pdSubscribers)
           THEN /\ adapter_' = [adapter_ EXCEPT !.pdSubscribers =
                                   Append(@, config_.pdSubscribers[i])]
                /\ simCall' = [simCall EXCEPT !["main"].idx = i + 1]
                /\ hist' = [hist EXCEPT !.registered = @ + 1]
                /\ UNCHANGED simPc
           ELSE /\ SimGoto("main", "r_listeners")
                /\ simCall' = [simCall EXCEPT !["main"].idx = 1]
                /\ UNCHANGED <<adapter_, hist>>
    /\ UNCHANGED <<running_, cleanedUp_, metrics_, pdWorkers_, mdWorkers_,
                   eventThread_>>
    /\ UNCHANGED nonSimVars

\* One turn of the loop over config_.mdListeners (lines 77-101); load_payload
\* of the reply payload may throw
RunRegisterListener(ok) ==
    /\ simPc["main"] = "r_listeners"
    /\ LET i == simCall["main"].idx
       IN  IF i <= Len(config_.mdListeners)
           THEN IF ok
                THEN /\ adapter_' = [adapter_ EXCEPT !.mdListeners =
                                        Append(@, config_.mdListeners[i])]
                     /\ simCall' = [simCall EXCEPT !["main"].idx = i + 1]
                     /\ hist' = [hist EXCEPT !.registered = @ + 1]
                     /\ UNCHANGED simPc
                ELSE /\ SimGoto("main", "r_err_status")
                     /\ UNCHANGED <<adapter_, simCall, hist>>
           ELSE /\ ok
                /\ SimGoto("main", "r_pdworkers")
                /\ simCall' = [simCall EXCEPT !["main"].idx = 1]
                /\ UNCHANGED <<adapter_, hist>>
    /\ UNCHANGED <<running_, cleanedUp_, metrics_, pdWorkers_, mdWorkers_,
                   eventThread_>>
    /\ UNCHANGED nonSimVars

\* The catch of an error raised after initialization: the adapter status
\* (line 125)
RunErrorStatus ==
    /\ simPc["main"] = "r_err_status"
    /\ metrics_' = set_adapter_status(metrics_, FALSE, StateError)
    /\ SimGoto("main", "r_err_run")
    /\ UNCHANGED <<running_, cleanedUp_, adapter_, pdWorkers_, mdWorkers_,
                   eventThread_, simCall, hist>>
    /\ UNCHANGED nonSimVars

\* The catch of an error raised after initialization: simulatorRunning, then
\* the rethrow (lines 126-128)
RunErrorThrow ==
    /\ simPc["main"] = "r_err_run"
    /\ metrics_' = set_simulator_running(metrics_, FALSE)
    /\ SimGoto("main", "idle")
    /\ hist' = [hist EXCEPT !.lastRun = "error"]
    /\ UNCHANGED <<running_, cleanedUp_, adapter_, pdWorkers_, mdWorkers_,
                   eventThread_, simCall>>
    /\ UNCHANGED nonSimVars

\* setup_pd_workers, one turn: the worker's constructor registers the
\* publisher, push_back (lines 199-204)
RunSetupPdWorker ==
    /\ simPc["main"] = "r_pdworkers"
    /\ LET i == simCall["main"].idx
       IN  IF i <= Len(config_.pdPublishers)
           THEN /\ adapter_' = [adapter_ EXCEPT !.pdPublishers =
                                   Append(@, config_.pdPublishers[i])]
                /\ pdWorkers_' = Append(pdWorkers_, NewWorker(config_.pdPublishers[i]))
                /\ simCall' = [simCall EXCEPT !["main"].idx = i + 1]
                /\ hist' = [hist EXCEPT !.registered = @ + 1,
                               !.clearRace = @ \/ RacesOnWorkers("main")]
                /\ UNCHANGED simPc
           ELSE /\ SimGoto("main", "r_mdworkers")
                /\ simCall' = [simCall EXCEPT !["main"].idx = 1]
                /\ UNCHANGED <<adapter_, pdWorkers_, hist>>
    /\ UNCHANGED <<running_, cleanedUp_, metrics_, mdWorkers_, eventThread_>>
    /\ UNCHANGED nonSimVars

\* setup_md_workers with a constructor that leaves the registration of the
\* sender to the worker's thread
RunSetupMdWorkerUnregistered ==
    /\ simPc["main"] = "r_mdworkers"
    /\ LET i == simCall["main"].idx
       IN  IF i <= Len(config_.mdSenders)
           THEN /\ mdWorkers_' = Append(mdWorkers_, NewWorker(config_.mdSenders[i]))
                /\ simCall' = [simCall EXCEPT !["main"].idx = i + 1]
                /\ hist' = [hist EXCEPT !.clearRace = @ \/ RacesOnWorkers("main")]
                /\ UNCHANGED simPc
           ELSE /\ SimGoto("main", "r_event")
                /\ UNCHANGED <<mdWorkers_, hist, simCall>>
    /\ UNCHANGED <<running_, cleanedUp_, metrics_, adapter_, pdWorkers_, eventThread_>>
    /\ UNCHANGED nonSimVars

\* setup_md_workers, one turn (lines 206-211)
RunSetupMdWorker ==
    /\ simPc["main"] = "r_mdworkers"
    /\ LET i == simCall["main"].idx
       IN  IF i <= Len(config_.mdSenders)
           THEN /\ adapter_' = [adapter_ EXCEPT !.mdSenders =
                                   Append(@, config_.mdSenders[i])]
                /\ mdWorkers_' = Append(mdWorkers_, NewWorker(config_.mdSenders[i]))
                /\ simCall' = [simCall EXCEPT !["main"].idx = i + 1]
                /\ hist' = [hist EXCEPT !.registered = @ + 1,
                               !.clearRace = @ \/ RacesOnWorkers("main")]
                /\ UNCHANGED simPc
           ELSE /\ SimGoto("main", "r_event")
                /\ UNCHANGED <<adapter_, mdWorkers_, hist, simCall>>
    /\ UNCHANGED <<running_, cleanedUp_, metrics_, pdWorkers_, eventThread_>>
    /\ UNCHANGED nonSimVars

\* start_event_loop (lines 213-227)
RunStartEventLoop ==
    /\ simPc["main"] = "r_event"
    /\ eventThread_' = IF eventThread_.state # "none" THEN eventThread_
                       ELSE [state |-> "running", epoch |-> hist.runs, tick |-> FALSE]
    /\ SimGoto("main", "r_start_pd")
    /\ simCall' = [simCall EXCEPT !["main"].idx = 1]
    /\ UNCHANGED <<running_, cleanedUp_, metrics_, adapter_, pdWorkers_,
                   mdWorkers_, hist>>
    /\ UNCHANGED nonSimVars

\* A start that sets the flag and creates no thread
StartWorkerNoThread(w, epoch) ==
    IF w.running THEN w ELSE [w EXCEPT !.running = TRUE, !.epoch = epoch]

\* PdPublisherWorker::start / MdSenderWorker::start on a worker record
StartWorker(w, epoch) ==
    IF w.running THEN w
    ELSE [w EXCEPT !.running = TRUE, !.thread = "active", !.epoch = epoch]

\* One turn of the loop that starts the PD workers (lines 107-109)
RunStartPdWorker ==
    /\ simPc["main"] = "r_start_pd"
    /\ LET i == simCall["main"].idx
       IN  IF i <= Len(pdWorkers_)
           THEN /\ pdWorkers_' = [pdWorkers_ EXCEPT ![i] = StartWorker(@, hist.runs)]
                /\ simCall' = [simCall EXCEPT !["main"].idx = i + 1]
                /\ UNCHANGED simPc
           ELSE /\ SimGoto("main", "r_start_md")
                /\ simCall' = [simCall EXCEPT !["main"].idx = 1]
                /\ UNCHANGED pdWorkers_
    /\ UNCHANGED <<running_, cleanedUp_, metrics_, adapter_, mdWorkers_,
                   eventThread_, hist>>
    /\ UNCHANGED nonSimVars

\* One turn of the loop that starts the MD workers (lines 110-112)
RunStartMdWorker ==
    /\ simPc["main"] = "r_start_md"
    /\ LET i == simCall["main"].idx
       IN  IF i <= Len(mdWorkers_)
           THEN /\ mdWorkers_' = [mdWorkers_ EXCEPT ![i] = StartWorker(@, hist.runs)]
                /\ simCall' = [simCall EXCEPT !["main"].idx = i + 1]
                /\ UNCHANGED simPc
           ELSE /\ SimGoto("main", "r_wait")
                /\ UNCHANGED <<mdWorkers_, simCall>>
    /\ UNCHANGED <<running_, cleanedUp_, metrics_, adapter_, pdWorkers_,
                   eventThread_, hist>>
    /\ UNCHANGED nonSimVars

\* stateCv_.wait returns: the predicate holds (lines 114-115)
RunWake ==
    /\ simPc["main"] = "r_wait"
    /\ WaitPredicate(running_)
    /\ SimGoto("main", "r_checkclean")
    /\ UNCHANGED <<running_, cleanedUp_, metrics_, adapter_, pdWorkers_,
                   mdWorkers_, eventThread_, simCall, hist>>
    /\ UNCHANGED nonSimVars

\* if (!cleanedUp_) (line 118); run() returns when cleanup was done
RunCheckCleanedUp ==
    /\ simPc["main"] = "r_checkclean"
    /\ IF ~cleanedUp_
       THEN /\ SimGoto("main", "r_setclean")
            /\ UNCHANGED hist
       ELSE /\ SimGoto("main", "idle")
            /\ hist' = [hist EXCEPT !.lastRun = "ok"]
    /\ UNCHANGED <<running_, cleanedUp_, metrics_, adapter_, pdWorkers_,
                   mdWorkers_, eventThread_, simCall>>
    /\ UNCHANGED nonSimVars

\* cleanedUp_ = true; lock.unlock(); stop() is entered (lines 119-121)
RunSetCleanedUp ==
    /\ simPc["main"] = "r_setclean"
    /\ cleanedUp_' = TRUE
    /\ SimGoto("main", "s_exchange")
    /\ simCall' = [simCall EXCEPT !["main"] = IdleSimCall]
    /\ UNCHANGED <<running_, metrics_, adapter_, pdWorkers_, mdWorkers_,
                   eventThread_, hist>>
    /\ UNCHANGED nonSimVars

-----------------------------------------------------------------------------
(* stop(), by a thread of its own or by run() after it woke up *)

\* stop() is entered by another thread
StopEnter(c, limit) ==
    /\ simPc[c] = "idle"
    /\ hist.stops < limit
    /\ SimGoto(c, "s_exchange")
    /\ simCall' = [simCall EXCEPT ![c] =
          [IdleSimCall EXCEPT !.during =
              IF simPc["main"] # "idle" THEN hist.runs ELSE 0]]
    /\ hist' = [hist EXCEPT !.stops = @ + 1, !.trail = Append(@, "stop"),
                            !.stopRequested = @ \/ simPc["main"] # "idle"]
    /\ UNCHANGED <<running_, cleanedUp_, metrics_, adapter_, pdWorkers_,
                   mdWorkers_, eventThread_>>
    /\ UNCHANGED nonSimVars

\* wasRunning = running_.exchange(false) (line 134)
StopExchange(c) ==
    /\ simPc[c] = "s_exchange"
    /\ simCall' = [simCall EXCEPT ![c].wasRunning = running_]
    /\ running_' = FALSE
    /\ SimGoto(c, "s_prior")
    /\ hist' = [hist EXCEPT !.stopSinceStore = @ \/ c \in Stoppers]
    /\ UNCHANGED <<cleanedUp_, metrics_, adapter_, pdWorkers_, mdWorkers_,
                   eventThread_>>
    /\ UNCHANGED nonSimVars

\* priorState = metrics_->snapshot().adapterState, then notify_all under
\* stateMutex_ (lines 135-142)
StopReadPriorState(c) ==
    /\ simPc[c] = "s_prior"
    /\ simCall' = [simCall EXCEPT ![c].priorState = metrics_.adapterState]
    /\ SimGoto(c, "s_check")
    /\ UNCHANGED <<running_, cleanedUp_, metrics_, adapter_, pdWorkers_,
                   mdWorkers_, eventThread_, hist>>
    /\ UNCHANGED nonSimVars

\* if (wasRunning || !cleanedUp_) (line 144)
StopCheckCleanup(c) ==
    /\ simPc[c] = "s_check"
    /\ IF NeedsCleanup(simCall[c].wasRunning, cleanedUp_)
       THEN SimGoto(c, "s_setclean")
       ELSE SimGoto(c, "s_status")
    /\ UNCHANGED <<running_, cleanedUp_, metrics_, adapter_, pdWorkers_,
                   mdWorkers_, eventThread_, simCall, hist>>
    /\ UNCHANGED nonSimVars

\* cleanedUp_ = true (line 145)
StopSetCleanedUp(c) ==
    /\ simPc[c] = "s_setclean"
    /\ cleanedUp_' = TRUE
    /\ SimGoto(c, "s_pd")
    /\ simCall' = [simCall EXCEPT ![c].idx = 1]
    /\ hist' = [hist EXCEPT !.cleanups = @ + 1]
    /\ UNCHANGED <<running_, metrics_, adapter_, pdWorkers_, mdWorkers_,
                   eventThread_>>
    /\ UNCHANGED nonSimVars

\* One turn of the loop over pdWorkers_: worker->stop() up to its join
\* (lines 147-151; PdPublisherWorker::stop)
StopPdWorker(c) ==
    /\ simPc[c] = "s_pd"
    /\ LET i == simCall[c].idx
       IN  IF i <= Len(pdWorkers_)
           THEN IF pdWorkers_[i].running
                THEN /\ pdWorkers_' = [pdWorkers_ EXCEPT ![i].running = FALSE]
                     /\ SimGoto(c, "s_pd_join")
                     /\ UNCHANGED simCall
                ELSE /\ simCall' = [simCall EXCEPT ![c].idx = i + 1]
                     /\ UNCHANGED <<pdWorkers_, simPc>>
           ELSE /\ SimGoto(c, "s_md")
                /\ simCall' = [simCall EXCEPT ![c].idx = 1]
                /\ UNCHANGED pdWorkers_
    /\ UNCHANGED <<running_, cleanedUp_, metrics_, adapter_, mdWorkers_,
                   eventThread_, hist>>
    /\ UNCHANGED nonSimVars

\* workerThread_.join() of a PD worker: waits for the thread to end
StopPdJoin(c) ==
    /\ simPc[c] = "s_pd_join"
    /\ LET i == simCall[c].idx
       IN  IF i <= Len(pdWorkers_)
           THEN /\ ~Active(pdWorkers_[i].thread)
                /\ pdWorkers_' = [pdWorkers_ EXCEPT ![i].thread = "none"]
           ELSE UNCHANGED pdWorkers_
    /\ simCall' = [simCall EXCEPT ![c].idx = @ + 1]
    /\ SimGoto(c, "s_pd")
    /\ UNCHANGED <<running_, cleanedUp_, metrics_, adapter_, mdWorkers_,
                   eventThread_, hist>>
    /\ UNCHANGED nonSimVars

\* One turn of the loop over mdWorkers_ (lines 152-156; MdSenderWorker::stop)
StopMdWorker(c) ==
    /\ simPc[c] = "s_md"
    /\ LET i == simCall[c].idx
       IN  IF i <= Len(mdWorkers_)
           THEN IF mdWorkers_[i].running
                THEN /\ mdWorkers_' = [mdWorkers_ EXCEPT ![i].running = FALSE]
                     /\ SimGoto(c, "s_md_join")
                     /\ UNCHANGED simCall
                ELSE /\ simCall' = [simCall EXCEPT ![c].idx = i + 1]
                     /\ UNCHANGED <<mdWorkers_, simPc>>
           ELSE /\ SimGoto(c, "s_poll")
                /\ UNCHANGED <<mdWorkers_, simCall>>
    /\ UNCHANGED <<running_, cleanedUp_, metrics_, adapter_, pdWorkers_,
                   eventThread_, hist>>
    /\ UNCHANGED nonSimVars

\* workerThread_.join() of an MD worker
StopMdJoin(c) ==
    /\ simPc[c] = "s_md_join"
    /\ LET i == simCall[c].idx
       IN  IF i <= Len(mdWorkers_)
           THEN /\ ~Active(mdWorkers_[i].thread)
                /\ mdWorkers_' = [mdWorkers_ EXCEPT ![i].thread = "none"]
           ELSE UNCHANGED mdWorkers_
    /\ simCall' = [simCall EXCEPT ![c].idx = @ + 1]
    /\ SimGoto(c, "s_md")
    /\ UNCHANGED <<running_, cleanedUp_, metrics_, adapter_, pdWorkers_,
                   eventThread_, hist>>
    /\ UNCHANGED nonSimVars

\* if (eventThread_.joinable()) (line 158)
StopPollJoinable(c) ==
    /\ simPc[c] = "s_poll"
    /\ IF eventThread_.state # "none"
       THEN SimGoto(c, "s_poll_join")
       ELSE SimGoto(c, "s_shutdown")
    /\ UNCHANGED <<running_, cleanedUp_, metrics_, adapter_, pdWorkers_,
                   mdWorkers_, eventThread_, simCall, hist>>
    /\ UNCHANGED nonSimVars

\* eventThread_.join() (line 159): waits for the poll thread to end; joining a
\* thread another caller has joined meanwhile throws std::system_error, which
\* leaves stop() (and is caught by run() when run() made the call)
StopPollJoin(c) ==
    /\ simPc[c] = "s_poll_join"
    /\ eventThread_.state # "running"
    /\ IF eventThread_.state = "exited"
       THEN /\ eventThread_' = [eventThread_ EXCEPT !.state = "none"]
            /\ SimGoto(c, "s_shutdown")
            /\ UNCHANGED hist
       ELSE /\ UNCHANGED eventThread_
            /\ SimGoto(c, IF c = "main" THEN "r_err_status" ELSE "idle")
            /\ hist' = [hist EXCEPT !.doubleJoin = TRUE, !.stopErr = TRUE]
    /\ UNCHANGED <<running_, cleanedUp_, metrics_, adapter_, pdWorkers_,
                   mdWorkers_, simCall>>
    /\ UNCHANGED nonSimVars

\* adapter_->shutdown() (lines 162-168)
StopShutdownAdapter(c) ==
    /\ simPc[c] = "s_shutdown"
    /\ adapter_' = AdapterReleased
    /\ SimGoto(c, "s_clear_pd")
    /\ UNCHANGED <<running_, cleanedUp_, metrics_, pdWorkers_, mdWorkers_,
                   eventThread_, simCall, hist>>
    /\ UNCHANGED nonSimVars

\* A worker vector whose workers have all been told to stop (the destructor
\* of a worker calls its stop())
AllToldToStop(workers) == [i \in DOMAIN workers |-> [workers[i] EXCEPT !.running = FALSE]]

\* pdWorkers_.clear() (line 170): a worker that still runs is stopped and
\* joined by its destructor
StopClearPdWorkers(c) ==
    /\ simPc[c] = "s_clear_pd"
    /\ IF \E i \in DOMAIN pdWorkers_ : Active(pdWorkers_[i].thread)
       THEN /\ \E i \in DOMAIN pdWorkers_ : pdWorkers_[i].running
            /\ pdWorkers_' = AllToldToStop(pdWorkers_)
            /\ UNCHANGED <<simPc, hist>>
       ELSE /\ pdWorkers_' = <<>>
            /\ SimGoto(c, "s_clear_md")
            /\ hist' = [hist EXCEPT !.clearRace = @ \/ RacesOnWorkers(c)]
    /\ UNCHANGED <<running_, cleanedUp_, metrics_, adapter_, mdWorkers_,
                   eventThread_, simCall>>
    /\ UNCHANGED nonSimVars

\* mdWorkers_.clear() (line 171)
StopClearMdWorkers(c) ==
    /\ simPc[c] = "s_clear_md"
    /\ IF \E i \in DOMAIN mdWorkers_ : Active(mdWorkers_[i].thread)
       THEN /\ \E i \in DOMAIN mdWorkers_ : mdWorkers_[i].running
            /\ mdWorkers_' = AllToldToStop(mdWorkers_)
            /\ UNCHANGED <<simPc, hist>>
       ELSE /\ mdWorkers_' = <<>>
            /\ SimGoto(c, "s_status")
            /\ hist' = [hist EXCEPT !.clearRace = @ \/ RacesOnWorkers(c)]
    /\ UNCHANGED <<running_, cleanedUp_, metrics_, adapter_, pdWorkers_,
                   eventThread_, simCall>>
    /\ UNCHANGED nonSimVars

\* The adapter state stop() writes (lines 175-181)
StoppedState(priorState) ==
    IF HadError(priorState) THEN priorState ELSE StateStopped

\* metrics_->set_adapter_status(false, ...) (lines 177-181)
StopSetStatus(c) ==
    /\ simPc[c] = "s_status"
    /\ metrics_' = set_adapter_status(metrics_, FALSE,
                                      StoppedState(simCall[c].priorState))
    /\ SimGoto(c, "s_setrun")
    /\ UNCHANGED <<running_, cleanedUp_, adapter_, pdWorkers_, mdWorkers_,
                   eventThread_, simCall, hist>>
    /\ UNCHANGED nonSimVars

\* metrics_->set_simulator_running(false) (line 182) and stop() returns; when
\* run() made the call, run() returns too
StopReturn(c) ==
    /\ simPc[c] = "s_setrun"
    /\ metrics_' = set_simulator_running(metrics_, FALSE)
    /\ SimGoto(c, "idle")
    /\ simCall' = [simCall EXCEPT ![c] = IdleSimCall]
    /\ hist' = IF c = "main"
               THEN [hist EXCEPT !.lastRun = "ok"]
               ELSE [hist EXCEPT
                        !.stoppedRuns = IF simCall[c].during = 0 THEN @
                                        ELSE @ \cup {simCall[c].during},
                        !.returned = @ + 1,
                        !.afterFailStop = (hist.lastRun = "init_failed")]
    /\ UNCHANGED <<running_, cleanedUp_, adapter_, pdWorkers_, mdWorkers_,
                   eventThread_>>
    /\ UNCHANGED nonSimVars

-----------------------------------------------------------------------------
(* The tasks *)

\* The poll thread, one turn of while (running_.load()): it ends when the
\* flag is false, else it polls (lines 218-226)
PollTurn ==
    /\ eventThread_.state = "running"
    /\ eventThread_' = IF running_ THEN [eventThread_ EXCEPT !.tick = ~@]
                       ELSE [eventThread_ EXCEPT !.state = "exited"]
    /\ UNCHANGED <<running_, cleanedUp_, metrics_, adapter_, pdWorkers_,
                   mdWorkers_, simPc, simCall, hist>>
    /\ UNCHANGED nonSimVars

\* A loop that does not look at the running_ flag
WorkerTurnForever(w) == [w EXCEPT !.thread = "active"]

\* One turn of a worker thread's loop: it ends when its running_ flag is
\* false, else it sends and sleeps
WorkerTurn(w) == [w EXCEPT !.thread = IF w.running THEN "active" ELSE "finished"]

\* PdPublisherWorker::run, one turn of while (running_): publish_pd,
\* record_pd_publish, sleep
PdWorkerRun(i) ==
    /\ i \in DOMAIN pdWorkers_
    /\ Active(pdWorkers_[i].thread)
    /\ pdWorkers_' = [pdWorkers_ EXCEPT ![i] = WorkerTurn(@)]
    /\ metrics_' = [metrics_ EXCEPT !.counted =
                        IF pdWorkers_[i].running THEN @ \cup {pdWorkers_[i].epoch}
                        ELSE @]
    /\ UNCHANGED <<running_, cleanedUp_, adapter_, mdWorkers_, eventThread_,
                   simPc, simCall, hist>>
    /\ UNCHANGED nonSimVars

\* MdSenderWorker::run, one turn of while (running_): send_md_request,
\* record_md_request_sent, sleep
MdWorkerRun(i) ==
    /\ i \in DOMAIN mdWorkers_
    /\ Active(mdWorkers_[i].thread)
    /\ mdWorkers_' = [mdWorkers_ EXCEPT ![i] = WorkerTurn(@)]
    /\ metrics_' = [metrics_ EXCEPT !.counted =
                        IF mdWorkers_[i].running THEN @ \cup {mdWorkers_[i].epoch}
                        ELSE @]
    /\ UNCHANGED <<running_, cleanedUp_, adapter_, pdWorkers_, eventThread_,
                   simPc, simCall, hist>>
    /\ UNCHANGED nonSimVars

-----------------------------------------------------------------------------
(* Payload resolution: load_payload.  A std::string is a sequence of         *)
(* one-character strings, a byte vector a sequence of numbers 0..255.        *)

\* The characters strings are made of here: digits, letters of both cases,
\* a letter that is no hex digit, and two kinds of whitespace
Alphabet == {"0", "9", "a", "F", "g", " ", "\n"}

\* std::isspace in the "C" locale
isspace(c) == c \in {" ", "\t", "\n", "\f", "\r"}

DecimalDigits == <<"0", "1", "2", "3", "4", "5", "6", "7", "8", "9">>
LowerHexLetters == <<"a", "b", "c", "d", "e", "f">>
UpperHexLetters == <<"A", "B", "C", "D", "E", "F">>

\* The position of c in a sequence that holds it
PositionIn(seq, c) == CHOOSE i \in DOMAIN seq : seq[i] = c

\* The lambda hex_value of from_hex (lines 195-200); -1 stands for the throw
hex_value(c) ==
    IF \E i \in DOMAIN DecimalDigits : DecimalDigits[i] = c
    THEN PositionIn(DecimalDigits, c) - 1
    ELSE IF \E i \in DOMAIN LowerHexLetters : LowerHexLetters[i] = c
    THEN PositionIn(LowerHexLetters, c) - 1 + 10
    ELSE IF \E i \in DOMAIN UpperHexLetters : UpperHexLetters[i] = c
    THEN PositionIn(UpperHexLetters, c) - 1 + 10
    ELSE -1

\* A sanitizing loop that keeps every character
SanitizeKeepsAll(hex) == hex

\* The first loop of from_hex (lines 185-191): the characters that are no
\* whitespace, in order
Sanitize(hex) == SelectSeq(hex, LAMBDA c : ~isspace(c))

\* The outcome of a call that returns bytes, and of one that throws
Bytes(data) == [ok |-> TRUE, data |-> data, error |-> <<>>]
Throws(message) == [ok |-> FALSE, data |-> <<>>, error |-> message]

\* static_cast<std::uint8_t>((high << 4) | low), both in 0..15
PackNibbles(high, low) == (high * 16 + low) % 256

\* The second loop of from_hex (lines 204-208) from index i on, data being
\* what has been pushed so far
RECURSIVE HexPairs(_, _, _)
HexPairs(sanitized, i, data) ==
    IF i > Len(sanitized) THEN Bytes(data)
    ELSE LET high == hex_value(sanitized[i])
         IN  IF high < 0
             THEN Throws(<<"Invalid hex character: ", sanitized[i]>>)
             ELSE LET low == hex_value(sanitized[i + 1])
                  IN  IF low < 0
                      THEN Throws(<<"Invalid hex character: ", sanitized[i + 1]>>)
                      ELSE HexPairs(sanitized, i + 2,
                                    Append(data, PackNibbles(high, low)))

\* from_hex (lines 183-210)
from_hex(hex) ==
    LET sanitized == Sanitize(hex)
    IN  IF Len(sanitized) % 2 # 0
        THEN Throws(<<"Hex payload must contain an even number of characters">>)
        ELSE HexPairs(sanitized, 1, <<>>)

\* The value of a character as a byte (ASCII), for the characters used here
CharCode(c) ==
    IF c = " " THEN 32 ELSE IF c = "\n" THEN 10 ELSE IF c = "\t" THEN 9
    ELSE IF c = "g" THEN 103
    ELSE IF \E i \in DOMAIN DecimalDigits : DecimalDigits[i] = c
    THEN 48 + PositionIn(DecimalDigits, c) - 1
    ELSE IF \E i \in DOMAIN LowerHexLetters : LowerHexLetters[i] = c
    THEN 97 + PositionIn(LowerHexLetters, c) - 1
    ELSE IF \E i \in DOMAIN UpperHexLetters : UpperHexLetters[i] = c
    THEN 65 + PositionIn(UpperHexLetters, c) - 1
    ELSE 63

\* from_text (lines 212-215)
from_text(text) == Bytes([i \in DOMAIN text |-> CharCode(text[i])])

\* The files a path can name, with their content; any other path does not open
FileSystem == [ p \in {<<"a">>, <<"0">>} |-> IF p = <<"a">> THEN <<1, 2>> ELSE <<>> ]

\* from_file (lines 217-227)
from_file(path) ==
    IF path \in DOMAIN FileSystem THEN Bytes(FileSystem[path])
    ELSE Throws(<<"Unable to open payload file: ">> \o path)

Formats == {"Hex", "Text", "File"}

\* load_payload (lines 230-241)
load_payload(payload) ==
    IF payload.format = "Hex" THEN from_hex(payload.value)
    ELSE IF payload.format = "Text" THEN from_text(payload.value)
    ELSE IF payload.format = "File" THEN from_file(payload.value)
    ELSE Throws(<<"Unsupported payload format">>)

\* All strings over Alphabet of length up to n
StringsUpTo(n) == UNION { [1..k -> Alphabet] : k \in 0..n }

\* One call of load_payload with a Hex payload, as made by a worker's
\* constructor, by update_payload and by Simulator::run; one call is looked at
LoadHexPayload ==
    /\ ~resolved.called
    /\ \E value \in StringsUpTo(MaxHexLen) :
          LET payload == [format |-> "Hex", value |-> value]
          IN  resolved' = [called |-> TRUE, payload |-> payload,
                           result |-> load_payload(payload)]
    /\ UNCHANGED <<worker_, wkPc, wkCall, wkHist, rm_, rmPc, rmCall, rmHist>>
    /\ UNCHANGED nonUnitVars

\* One call of load_payload with a Text or File payload
LoadOtherPayload ==
    /\ ~resolved.called
    /\ \E format \in Formats \ {"Hex"}, value \in StringsUpTo(1) :
          LET payload == [format |-> format, value |-> value]
          IN  resolved' = [called |-> TRUE, payload |-> payload,
                           result |-> load_payload(payload)]
    /\ UNCHANGED <<worker_, wkPc, wkCall, wkHist, rm_, rmPc, rmCall, rmHist>>
    /\ UNCHANGED nonUnitVars

-----------------------------------------------------------------------------
(* RuntimeMetrics: the maps and what one record_* call does to them          *)

\* A default-constructed stats entry of each map
DefaultStats(table) ==
    IF table = "pdPublishers" THEN [name |-> "", packetsSent |-> 0]
    ELSE IF table = "pdSubscribers" THEN [name |-> "", packetsReceived |-> 0]
    ELSE IF table = "mdSenders" THEN [name |-> "", requestsSent |-> 0,
                                      repliesReceived |-> 0]
    ELSE [name |-> "", requestsReceived |-> 0, repliesSent |-> 0]

\* ensure_entry (runtime_metrics.hpp lines 59-67): map[name], which inserts a
\* default entry when the name is new, named on first use
ensure_entry(map, default, name) ==
    LET entry == IF name \in DOMAIN map THEN map[name] ELSE default
    IN  IF entry.name = "" THEN [entry EXCEPT !.name = name] ELSE entry

\* The metrics after the locked block of one record_* call: ensure_entry,
\* then the increment of one counter
Recorded(m, table, name, counter) ==
    LET entry == ensure_entry(m[table], DefaultStats(table), name)
    IN  [m EXCEPT ![table] = MapPut(@, name, [entry EXCEPT ![counter] = @ + 1])]

\* The value snapshot() reports for a name and a counter
Reported(m, table, name, counter) ==
    IF name \in DOMAIN m[table] THEN m[table][name][counter] ELSE 0

\* RuntimeMetrics as constructed, and after reset()
MetricsBaseline ==
    [mutex_ |-> "none", simulatorRunning |-> FALSE, adapterInitialized |-> FALSE,
     adapterState |-> StateIdle, pdPublishers |-> EmptyMap,
     pdSubscribers |-> EmptyMap, mdSenders |-> EmptyMap, mdListeners |-> EmptyMap]

-----------------------------------------------------------------------------
(* One cyclic worker: PdPublisherWorker or MdSenderWorker.  Threads a and b  *)
(* call its public operations, thread w is the one start() creates.          *)

WkCallers == {"a", "b"}
WkThreads == {"a", "b", "w"}

NoPayload == [format |-> "Hex", value |-> <<>>]

\* The payload of the worker's configuration
InitialPayload == [format |-> "Hex", value |-> <<"0", "a">>]

\* What callers pass to update_payload: two that resolve, hex with an odd
\* digit count, hex with a character that is no hex digit, a file that does
\* not open
UpdateInputs ==
    { [format |-> "Hex", value |-> <<"9", "F", " ", "0", "a">>],
      [format |-> "Text", value |-> <<"g">>],
      [format |-> "Hex", value |-> <<"9">>],
      [format |-> "Hex", value |-> <<"g", "0">>],
      [format |-> "File", value |-> <<"9">>] }

\* The worker before its constructor has run
NoWorker ==
    [built |-> FALSE, kind |-> "pd", name |-> "", cycleTimeMs |-> 1,
     running_ |-> FALSE, workerThread_ |-> "none", payloadMutex_ |-> "none",
     payload_ |-> <<>>, payloadSpec |-> NoPayload]

IdleWkCall == [op |-> "none", payloadSpec |-> NoPayload, data |-> <<>>,
               payloadCopy |-> <<>>, ok |-> FALSE]

\* std::thread::joinable
Joinable(thread) == thread \in {"active", "finished"}

\* The metrics table and counter a worker records into
WkTable(kind) == IF kind = "pd" THEN "pdPublishers" ELSE "mdSenders"
WkCounter(kind) == IF kind = "pd" THEN "packetsSent" ELSE "requestsSent"

WkGoto(t, label) == wkPc' = [wkPc EXCEPT ![t] = label]

\* A caller may begin an operation
WkMayCall(c) ==
    /\ worker_.built
    /\ ~wkHist.terminated
    /\ wkPc[c] = "idle"
    /\ wkHist.ops < MaxWorkerOps

wkRest == <<resolved, rmPc, rmCall, rmHist>>

\* The constructor (part_007 lines 8-16, trdp_md_worker.cpp lines 79-90):
\* the configured payload is resolved and the worker registers itself
WkConstruct(kind, cycleTimeMs) ==
    /\ ~worker_.built
    /\ LET result == load_payload(InitialPayload)
       IN  /\ result.ok
           /\ worker_' = [NoWorker EXCEPT !.built = TRUE, !.kind = kind,
                             !.name = IF kind = "pd" THEN "P1" ELSE "S1",
                             !.cycleTimeMs = cycleTimeMs,
                             !.payload_ = result.data,
                             !.payloadSpec = InitialPayload]
           /\ wkHist' = [wkHist EXCEPT !.applied = {result.data}]
    /\ UNCHANGED <<wkPc, wkCall, rm_>>
    /\ UNCHANGED wkRest
    /\ UNCHANGED nonUnitVars

\* A start() that never sends by itself
SendsAtStartNever(cycleTimeMs) == FALSE

\* The test at the head of MdSenderWorker::start (line 99)
SendsAtStart(cycleTimeMs) == cycleTimeMs = 0

\* What a read of payload_ without payloadMutex_ can give while another
\* thread is inside the move assignment of update_payload: the bytes before,
\* the bytes after, or the buffer of one with the size of the other
UnlockedRead(w, writers) ==
    {w.payload_} \cup
    UNION { { wkCall[u].data,
              [i \in 1..Len(w.payload_) |->
                  IF i <= Len(wkCall[u].data) THEN wkCall[u].data[i] ELSE 0],
              [i \in 1..Len(wkCall[u].data) |->
                  IF i <= Len(w.payload_) THEN w.payload_[i] ELSE 0] }
            : u \in writers }

\* The callers that hold payloadMutex_ and have not yet written payload_
WritingPayload == {u \in WkCallers : wkPc[u] = "u_bytes"}

\* History: a payload is handed to publish_pd or send_md_request
NoteHanded(h, payload, ok) ==
    [h EXCEPT !.handed = Append(@, payload),
              !.outcomes = Append(@, ok),
              !.sentAfterStop = @ \/ h.quiet]

\* MdSenderWorker::start with cycleTimeMs == 0 (lines 99-101): payload_ is
\* read without the lock and handed to send_md_request, which returns or throws
WkStartSendOnce(c, ok) ==
    /\ WkMayCall(c)
    /\ worker_.kind = "md"
    /\ SendsAtStart(worker_.cycleTimeMs)
    /\ Len(wkHist.handed) < MaxPublishes
    /\ \E payload \in UnlockedRead(worker_, WritingPayload) :
          wkHist' = [NoteHanded([wkHist EXCEPT !.quiet = FALSE], payload, ok)
                        EXCEPT !.ops = @ + 1, !.startCalls = @ + 1,
                               !.startSends = [@ EXCEPT ![c] = 1]]
    /\ wkCall' = [wkCall EXCEPT ![c] = [IdleWkCall EXCEPT !.op = "start", !.ok = ok]]
    /\ WkGoto(c, "st_record")
    /\ UNCHANGED <<worker_, rm_>>
    /\ UNCHANGED wkRest
    /\ UNCHANGED nonUnitVars

\* MdSenderWorker::start with cycleTimeMs == 0 (lines 102-106):
\* record_md_request_sent unless the send threw, then return
WkStartRecord(c) ==
    /\ wkPc[c] = "st_record"
    /\ ~wkHist.terminated
    /\ rm_' = IF wkCall[c].ok
              THEN Recorded(rm_, WkTable(worker_.kind), worker_.name,
                            WkCounter(worker_.kind))
              ELSE rm_
    /\ WkGoto(c, "idle")
    /\ wkCall' = [wkCall EXCEPT ![c] = IdleWkCall]
    /\ wkHist' = [wkHist EXCEPT !.started = @ \cup {c}]
    /\ UNCHANGED worker_
    /\ UNCHANGED wkRest
    /\ UNCHANGED nonUnitVars

\* start(): running_.exchange(true), return when it was set
\* (part_007 lines 25-27, trdp_md_worker.cpp lines 108-110)
WkStartExchange(c) ==
    /\ WkMayCall(c)
    /\ ~(worker_.kind = "md" /\ SendsAtStart(worker_.cycleTimeMs))
    /\ worker_' = [worker_ EXCEPT !.running_ = TRUE]
    /\ wkCall' = [wkCall EXCEPT ![c] = [IdleWkCall EXCEPT !.op = "start"]]
    /\ WkGoto(c, IF worker_.running_ THEN "idle" ELSE "st_spawn")
    /\ wkHist' = [wkHist EXCEPT !.ops = @ + 1, !.quiet = FALSE,
                                !.startCalls = @ + 1,
                                !.startSends = [@ EXCEPT ![c] = 0]]
    /\ UNCHANGED rm_
    /\ UNCHANGED wkRest
    /\ UNCHANGED nonUnitVars

\* start(): workerThread_ = std::thread(...) (part_007 line 28,
\* trdp_md_worker.cpp line 111).  Assigning to a std::thread that is still
\* joinable calls std::terminate.
WkStartSpawn(c) ==
    /\ wkPc[c] = "st_spawn"
    /\ ~wkHist.terminated
    /\ IF Joinable(worker_.workerThread_)
       THEN /\ wkHist' = [wkHist EXCEPT !.terminated = TRUE]
            /\ UNCHANGED <<worker_, wkPc>>
       ELSE /\ worker_' = [worker_ EXCEPT !.workerThread_ = "active"]
            /\ wkPc' = [wkPc EXCEPT ![c] = "idle", !["w"] = "w_check"]
            /\ wkHist' = [wkHist EXCEPT !.spawned = @ + 1,
                                        !.started = @ \cup {c}]
    /\ UNCHANGED <<wkCall, rm_>>
    /\ UNCHANGED wkRest
    /\ UNCHANGED nonUnitVars

\* stop(): running_.exchange(false), return when it was clear
\* (part_007 lines 33-35, trdp_md_worker.cpp lines 116-118)
WkStopExchange(c) ==
    /\ WkMayCall(c)
    /\ worker_' = [worker_ EXCEPT !.running_ = FALSE]
    /\ wkCall' = [wkCall EXCEPT ![c] = [IdleWkCall EXCEPT !.op = "stop"]]
    /\ WkGoto(c, IF worker_.running_ THEN "sp_joinable" ELSE "idle")
    /\ wkHist' = [wkHist EXCEPT !.ops = @ + 1,
                                !.stopCalls = @ + 1,
                                !.quiet = @ \/ ~worker_.running_]
    /\ UNCHANGED rm_
    /\ UNCHANGED wkRest
    /\ UNCHANGED nonUnitVars

\* stop(): if (workerThread_.joinable()) (part_007 line 36)
WkStopJoinable(c) ==
    /\ wkPc[c] = "sp_joinable"
    /\ ~wkHist.terminated
    /\ WkGoto(c, IF Joinable(worker_.workerThread_) THEN "sp_join" ELSE "idle")
    /\ wkHist' = [wkHist EXCEPT !.quiet = @ \/ ~Joinable(worker_.workerThread_)]
    /\ UNCHANGED <<worker_, wkCall, rm_>>
    /\ UNCHANGED wkRest
    /\ UNCHANGED nonUnitVars

\* stop(): workerThread_.join() returns once run() has returned (line 37)
WkStopJoin(c) ==
    /\ wkPc[c] = "sp_join"
    /\ ~wkHist.terminated
    /\ worker_.workerThread_ = "finished"
    /\ worker_' = [worker_ EXCEPT !.workerThread_ = "none"]
    /\ WkGoto(c, "idle")
    /\ wkHist' = [wkHist EXCEPT !.quiet = TRUE]
    /\ UNCHANGED <<wkCall, rm_>>
    /\ UNCHANGED wkRest
    /\ UNCHANGED nonUnitVars

\* run(): while (running_) (part_007 line 45); the thread ends when it is clear
WkRunCheck ==
    /\ wkPc["w"] = "w_check"
    /\ ~wkHist.terminated
    /\ IF worker_.running_
       THEN /\ WkGoto("w", "w_copy")
            /\ UNCHANGED worker_
       ELSE /\ WkGoto("w", "idle")
            /\ worker_' = [worker_ EXCEPT !.workerThread_ = "finished"]
    /\ UNCHANGED <<wkCall, wkHist, rm_>>
    /\ UNCHANGED wkRest
    /\ UNCHANGED nonUnitVars

\* run(): payloadCopy = payload_ under payloadMutex_ (lines 47-51)
WkRunCopy ==
    /\ wkPc["w"] = "w_copy"
    /\ ~wkHist.terminated
    /\ worker_.payloadMutex_ = "none"
    /\ wkCall' = [wkCall EXCEPT !["w"] =
                     [IdleWkCall EXCEPT !.op = "run", !.payloadCopy = worker_.payload_]]
    /\ WkGoto("w", "w_call")
    /\ UNCHANGED <<worker_, wkHist, rm_>>
    /\ UNCHANGED wkRest
    /\ UNCHANGED nonUnitVars

\* A loop that counts every call, failed or not
CountsCallAlways(ok) == TRUE

\* Whether an iteration reaches record_pd_publish / record_md_request_sent
\* (line 53): only when the call before it did not throw
CountsCall(ok) == ok

\* run(): publish_pd / send_md_request with the copy (line 52); the call
\* returns or throws
WkRunCall(ok) ==
    /\ wkPc["w"] = "w_call"
    /\ ~wkHist.terminated
    /\ Len(wkHist.handed) < MaxPublishes
    /\ wkHist' = NoteHanded(wkHist, wkCall["w"].payloadCopy, ok)
    /\ WkGoto("w", IF CountsCall(ok) THEN "w_record" ELSE "w_check")
    /\ UNCHANGED <<worker_, wkCall, rm_>>
    /\ UNCHANGED wkRest
    /\ UNCHANGED nonUnitVars

\* run(): record_pd_publish / record_md_request_sent, then sleep_for and the
\* head of the loop (lines 53, 57)
WkRunRecord ==
    /\ wkPc["w"] = "w_record"
    /\ ~wkHist.terminated
    /\ rm_' = Recorded(rm_, WkTable(worker_.kind), worker_.name,
                       WkCounter(worker_.kind))
    /\ WkGoto("w", "w_check")
    /\ UNCHANGED <<worker_, wkCall, wkHist>>
    /\ UNCHANGED wkRest
    /\ UNCHANGED nonUnitVars

\* payload_config(): config_.payload under payloadMutex_ (lines 62-66)
WkPayloadConfig(c) ==
    /\ WkMayCall(c)
    /\ worker_.payloadMutex_ = "none"
    /\ wkHist' = [wkHist EXCEPT !.ops = @ + 1,
                                !.shown = @ \cup {worker_.payloadSpec}]
    /\ UNCHANGED <<worker_, wkPc, wkCall, rm_>>
    /\ UNCHANGED wkRest
    /\ UNCHANGED nonUnitVars

\* A catch block that has already stored the new spec
UpdateFailedStoresSpec(w, payloadSpec) == [w EXCEPT !.payloadSpec = payloadSpec]

\* The worker when update_payload has caught the exception of load_payload
\* (lines 81-84): nothing of it was touched
UpdateFailed(w, payloadSpec) == w

\* update_payload: load_payload(payloadSpec) outside the lock (lines 70-74);
\* when it throws, error_message = ex.what() and false is returned
WkUpdateResolve(c, payloadSpec) ==
    /\ WkMayCall(c)
    /\ LET result == load_payload(payloadSpec)
       IN  IF result.ok
           THEN /\ wkCall' = [wkCall EXCEPT ![c] =
                      [IdleWkCall EXCEPT !.op = "update_payload",
                                         !.payloadSpec = payloadSpec,
                                         !.data = result.data]]
                /\ WkGoto(c, "u_lock")
                /\ wkHist' = [wkHist EXCEPT !.ops = @ + 1,
                                            !.applied = @ \cup {result.data}]
                /\ UNCHANGED worker_
           ELSE /\ worker_' = UpdateFailed(worker_, payloadSpec)
                /\ wkHist' = [wkHist EXCEPT !.ops = @ + 1,
                      !.updates = [@ EXCEPT ![c] =
                          [returned |-> @.returned + 1, ok |-> FALSE,
                           error_message |-> result.error]]]
                /\ UNCHANGED <<wkPc, wkCall>>
    /\ UNCHANGED rm_
    /\ UNCHANGED wkRest
    /\ UNCHANGED nonUnitVars

\* update_payload: std::lock_guard lock(payloadMutex_) (line 76)
WkUpdateLock(c) ==
    /\ wkPc[c] = "u_lock"
    /\ ~wkHist.terminated
    /\ worker_.payloadMutex_ = "none"
    /\ worker_' = [worker_ EXCEPT !.payloadMutex_ = c]
    /\ WkGoto(c, "u_bytes")
    /\ UNCHANGED <<wkCall, wkHist, rm_>>
    /\ UNCHANGED wkRest
    /\ UNCHANGED nonUnitVars

\* update_payload: payload_ = std::move(data) (line 77)
WkUpdateBytes(c) ==
    /\ wkPc[c] = "u_bytes"
    /\ ~wkHist.terminated
    /\ worker_' = [worker_ EXCEPT !.payload_ = wkCall[c].data]
    /\ WkGoto(c, "u_spec")
    /\ UNCHANGED <<wkCall, wkHist, rm_>>
    /\ UNCHANGED wkRest
    /\ UNCHANGED nonUnitVars

\* update_payload: config_.payload = payloadSpec, the lock is released and
\* true is returned (lines 78-80)
WkUpdateSpec(c) ==
    /\ wkPc[c] = "u_spec"
    /\ ~wkHist.terminated
    /\ worker_' = [worker_ EXCEPT !.payloadSpec = wkCall[c].payloadSpec,
                                  !.payloadMutex_ = "none"]
    /\ WkGoto(c, "idle")
    /\ wkCall' = [wkCall EXCEPT ![c] = IdleWkCall]
    /\ wkHist' = [wkHist EXCEPT !.updates = [@ EXCEPT ![c] =
                     [returned |-> @.returned + 1, ok |-> TRUE,
                      error_message |-> <<>>]]]
    /\ UNCHANGED rm_
    /\ UNCHANGED wkRest
    /\ UNCHANGED nonUnitVars

-----------------------------------------------------------------------------
(* RuntimeMetrics, operation by operation.  Every operation takes mutex_     *)
(* first; what it does under the lock is split where it reads or writes a    *)
(* member, so that the lock, not the model, is what makes it atomic.         *)

RmThreads == {"m1", "m2"}
RmNames == {"L1", "P1"}

\* std::map iterates in key order
RmNameOrder == <<"L1", "P1">>

\* The record_* operations threads call here, each as <<map, counter>>:
\* record_pd_publish, record_md_request_received, record_md_reply_sent
RecordKinds ==
    { <<"pdPublishers", "packetsSent">>, <<"mdListeners", "requestsReceived">>,
      <<"mdListeners", "repliesSent">> }

IdleRmCall == [op |-> "none", table |-> "", name |-> "", counter |-> "",
               entry |-> <<>>, snap |-> <<>>, flag |-> FALSE]

\* The vector snapshot() builds from a map (lines 79-94)
TableVector(map) ==
    LET present == SelectSeq(RmNameOrder, LAMBDA n : n \in DOMAIN map)
    IN  [i \in DOMAIN present |-> map[present[i]]]

\* The flags of a default-constructed Snapshot, nothing copied into them
SnapshotFlagsDefault(m) ==
    [simulatorRunning |-> FALSE, adapterInitialized |-> FALSE,
     adapterState |-> StateIdle]

\* The flags part of a Snapshot (lines 76-78)
SnapshotFlags(m) ==
    [simulatorRunning |-> m.simulatorRunning,
     adapterInitialized |-> m.adapterInitialized,
     adapterState |-> m.adapterState]

\* The Snapshot of a metrics value (lines 75-95)
SnapshotOf(m) ==
    [simulatorRunning |-> m.simulatorRunning,
     adapterInitialized |-> m.adapterInitialized,
     adapterState |-> m.adapterState,
     pdPublishers |-> TableVector(m.pdPublishers),
     pdSubscribers |-> TableVector(m.pdSubscribers),
     mdSenders |-> TableVector(m.mdSenders),
     mdListeners |-> TableVector(m.mdListeners)]

\* A lock that is never held
MutexFreeAlways(m) == TRUE

\* std::lock_guard<std::mutex> lock(mutex_) can be taken
MutexFree(m) == m.mutex_ = "none"

RmGoto(t, label) == rmPc' = [rmPc EXCEPT ![t] = label]

rmRest == <<resolved, worker_, wkPc, wkCall, wkHist>>

\* History: an operation has completed, the metrics are m from now on
NoteCommitted(h, m) ==
    [h EXCEPT !.window = [t \in RmThreads |->
                             IF rmPc[t] \in {"rm_snap_flags", "rm_snap_tables"}
                             THEN @[t] \cup {SnapshotOf(m)} ELSE @[t]]]

\* Any operation: the lock is taken (first line of each member function)
RmLock(t, op, table, name, counter, flag) ==
    /\ rmPc[t] = "idle"
    /\ rmHist.ops < MaxMetricOps
    /\ op = "snapshot" => Len(rmHist.snapshots) < MaxSnapshots
    /\ MutexFree(rm_)
    /\ rm_' = [rm_ EXCEPT !.mutex_ = t]
    /\ rmCall' = [rmCall EXCEPT ![t] =
                     [IdleRmCall EXCEPT !.op = op, !.table = table, !.name = name,
                                        !.counter = counter, !.flag = flag]]
    /\ RmGoto(t, IF op = "record" THEN "rm_ensure"
                 ELSE IF op = "snapshot" THEN "rm_snap_flags"
                 ELSE "rm_" \o op)
    /\ rmHist' = [rmHist EXCEPT !.ops = @ + 1,
                                !.window = [@ EXCEPT ![t] =
                                    IF op = "snapshot" THEN {SnapshotOf(rm_)}
                                    ELSE {}]]
    /\ UNCHANGED rmRest
    /\ UNCHANGED nonUnitVars

\* The lock is released when the member function returns
Unlocked(m, t) == [m EXCEPT !.mutex_ = IF @ = t THEN "none" ELSE @]

\* record_*: auto &entry = ensure_entry(map, name) (lines 33, 40, 47, ...)
RmEnsure(t) ==
    /\ rmPc[t] = "rm_ensure"
    /\ LET c == rmCall[t]
           entry == ensure_entry(rm_[c.table], DefaultStats(c.table), c.name)
       IN  /\ rm_' = [rm_ EXCEPT ![c.table] = MapPut(@, c.name, entry)]
           /\ rmCall' = [rmCall EXCEPT ![t].entry = entry]
    /\ RmGoto(t, "rm_increment")
    /\ UNCHANGED rmHist
    /\ UNCHANGED rmRest
    /\ UNCHANGED nonUnitVars

\* record_*: ++entry.counter with the value read, and return (lines 34, 41, ...)
RmIncrement(t) ==
    /\ rmPc[t] = "rm_increment"
    /\ LET c == rmCall[t]
           m == Unlocked([rm_ EXCEPT ![c.table] =
                    MapPut(@, c.name, [c.entry EXCEPT ![c.counter] = @ + 1])], t)
       IN  /\ rm_' = m
           /\ rmHist' = [NoteCommitted(rmHist, m) EXCEPT
                            !.completed = [@ EXCEPT ![<<c.table, c.name, c.counter>>]
                                               = @ + 1]]
    /\ RmGoto(t, "idle")
    /\ rmCall' = [rmCall EXCEPT ![t] = IdleRmCall]
    /\ UNCHANGED rmRest
    /\ UNCHANGED nonUnitVars

\* A reset that sets the counters to zero and keeps the entries
RmResetKeepsEntries(t) ==
    /\ rmPc[t] = "rm_reset"
    /\ LET zeroed(table) == [n \in DOMAIN rm_[table] |->
                                 [DefaultStats(table) EXCEPT !.name = n]]
           m == Unlocked([MetricsBaseline EXCEPT
                             !.mutex_ = rm_.mutex_,
                             !.pdPublishers = zeroed("pdPublishers"),
                             !.pdSubscribers = zeroed("pdSubscribers"),
                             !.mdSenders = zeroed("mdSenders"),
                             !.mdListeners = zeroed("mdListeners")], t)
       IN  /\ rm_' = m
           /\ rmHist' = [NoteCommitted(rmHist, m) EXCEPT
                            !.completed = [k \in DOMAIN @ |-> 0],
                            !.resets = @ + 1]
    /\ RmGoto(t, "idle")
    /\ rmCall' = [rmCall EXCEPT ![t] = IdleRmCall]
    /\ UNCHANGED rmRest
    /\ UNCHANGED nonUnitVars

\* reset(): the flags, the state and the four maps, and return (lines 5-15)
RmReset(t) ==
    /\ rmPc[t] = "rm_reset"
    /\ LET m == Unlocked([MetricsBaseline EXCEPT !.mutex_ = rm_.mutex_], t)
       IN  /\ rm_' = m
           /\ rmHist' = [NoteCommitted(rmHist, m) EXCEPT
                            !.completed = [k \in DOMAIN @ |-> 0],
                            !.resets = @ + 1]
    /\ RmGoto(t, "idle")
    /\ rmCall' = [rmCall EXCEPT ![t] = IdleRmCall]
    /\ UNCHANGED rmRest
    /\ UNCHANGED nonUnitVars

\* set_simulator_running (lines 17-21)
RmSetSimulatorRunning(t) ==
    /\ rmPc[t] = "rm_set_simulator_running"
    /\ LET m == Unlocked([rm_ EXCEPT !.simulatorRunning = rmCall[t].flag], t)
       IN  /\ rm_' = m
           /\ rmHist' = NoteCommitted(rmHist, m)
    /\ RmGoto(t, "idle")
    /\ rmCall' = [rmCall EXCEPT ![t] = IdleRmCall]
    /\ UNCHANGED rmRest
    /\ UNCHANGED nonUnitVars

\* set_adapter_status (lines 23-28)
RmSetAdapterStatus(t) ==
    /\ rmPc[t] = "rm_set_adapter_status"
    /\ LET m == Unlocked([rm_ EXCEPT
                    !.adapterInitialized = rmCall[t].flag,
                    !.adapterState = IF rmCall[t].flag THEN StateRunning
                                     ELSE StateStopped], t)
       IN  /\ rm_' = m
           /\ rmHist' = NoteCommitted(rmHist, m)
    /\ RmGoto(t, "idle")
    /\ rmCall' = [rmCall EXCEPT ![t] = IdleRmCall]
    /\ UNCHANGED rmRest
    /\ UNCHANGED nonUnitVars

\* snapshot(): the flags and the state are copied (lines 75-78)
RmSnapshotFlags(t) ==
    /\ rmPc[t] = "rm_snap_flags"
    /\ rmCall' = [rmCall EXCEPT ![t].snap = SnapshotFlags(rm_)]
    /\ RmGoto(t, "rm_snap_tables")
    /\ UNCHANGED <<rm_, rmHist>>
    /\ UNCHANGED rmRest
    /\ UNCHANGED nonUnitVars

\* snapshot(): the maps are copied and the Snapshot is returned by value
\* (lines 79-95)
RmSnapshotTables(t) ==
    /\ rmPc[t] = "rm_snap_tables"
    /\ LET flags == rmCall[t].snap
           snap == [SnapshotOf(rm_) EXCEPT
                       !.simulatorRunning = flags.simulatorRunning,
                       !.adapterInitialized = flags.adapterInitialized,
                       !.adapterState = flags.adapterState]
       IN  rmHist' = [rmHist EXCEPT
                         !.snapshots = Append(@, [snap |-> snap,
                                                 window |-> rmHist.window[t]])]
    /\ rm_' = Unlocked(rm_, t)
    /\ RmGoto(t, "idle")
    /\ rmCall' = [rmCall EXCEPT ![t] = IdleRmCall]
    /\ UNCHANGED rmRest
    /\ UNCHANGED nonUnitVars

-----------------------------------------------------------------------------
(* The request handler Simulator::run attaches to an MD listener, on the     *)
(* loopback transport (part_011 lines 77-101)                                *)

\* MD listeners of a SimulatorConfig: the reply payload of the first is hex
\* digits, that of the second a file that is empty, that of the third hex
\* text made of a blank; the fourth does not reply
ListenerConfigs ==
    { [name |-> "L1", comId |-> 0, sourceIp |-> "", destIp |-> "",
       autoReply |-> TRUE, replyPayload |-> [format |-> "Hex", value |-> <<"0", "a">>]],
      [name |-> "L4", comId |-> 0, sourceIp |-> "", destIp |-> "",
       autoReply |-> TRUE, replyPayload |-> [format |-> "File", value |-> <<"0">>]],
      [name |-> "L5", comId |-> 1, sourceIp |-> "", destIp |-> "",
       autoReply |-> TRUE, replyPayload |-> [format |-> "Hex", value |-> <<" ">>]],
      [name |-> "L2", comId |-> 0, sourceIp |-> "", destIp |-> "",
       autoReply |-> FALSE, replyPayload |-> NoPayload] }

\* validate_configuration (trdp_stack_adapter_stub.cpp lines 512-516)
ValidListener(listener) ==
    ~(listener.autoReply /\ listener.replyPayload.value = <<>>)

\* The reply payload run() resolves for a listener (lines 78-81)
ResolvedReplyPayload(listener) ==
    IF listener.autoReply /\ listener.replyPayload.value # <<>>
    THEN load_payload(listener.replyPayload)
    ELSE Bytes(<<>>)

\* The configuration as the transport keeps it
TransportListenerConfig(listener) ==
    [name |-> listener.name, comId |-> listener.comId,
     sourceIp |-> listener.sourceIp, destIp |-> listener.destIp,
     autoReply |-> listener.autoReply]

\* run() registers one listener with its handler (lines 77-101)
AttachListener(listener) ==
    /\ ValidListener(listener)
    /\ ResolvedReplyPayload(listener).ok
    /\ RegisterMdListener(TransportListenerConfig(listener),
                          MdListenerHandlerOf(listener.name, listener.autoReply,
                                              ResolvedReplyPayload(listener).data))
    /\ UNCHANGED unitVars
    /\ UNCHANGED simVars
    /\ UNCHANGED appVars

\* The handler's test before it replies (line 89)
HandlerReplies(h) == h.present /\ h.autoReply /\ h.replyPayload # <<>>

\* The sender whose worker registered a reply handler
HandlerOwner(handler) ==
    (CHOOSE s \in MdSenderOffers : s.handler = handler).config.name

\* What a handler that records into the metrics leaves alone
metricsUnits == <<resolved, worker_, wkPc, wkCall, wkHist, rmPc, rmCall, rmHist>>
metricsRest == <<metricsUnits, appVars>>

\* One listener's handler runs inside send_md_request:
\* record_md_request_received (lines 84-86), then, for an auto-reply listener
\* with reply bytes, send_md_reply (line 91); when that finds no session it
\* returns at once and record_md_reply_sent follows (lines 92-94)
HandlerDeliver(t) ==
    /\ SendMdRequestDeliver(t)
    /\ LET h == mdCall[t].listeners[mdCall[t].idx].handler
           received == IF h.present
                       THEN Recorded(rm_, "mdListeners", h.name, "requestsReceived")
                       ELSE rm_
       IN  rm_' = IF HandlerReplies(h) /\ pc'[t] # "md_nested"
                  THEN Recorded(received, "mdListeners", h.name, "repliesSent")
                  ELSE received
    /\ UNCHANGED metricsRest
    /\ UNCHANGED simVars

\* send_md_reply invokes the sender's reply handler, which records the reply
\* (trdp_md_worker.cpp lines 86-89), and returns into the listener's handler,
\* which records the reply it sent (part_011 lines 92-94)
HandlerReplied(t) ==
    /\ SendMdRequestNestedReply(t)
    /\ LET h == mdCall[t].listeners[mdCall[t].idx].handler
           replyReceived ==
               IF mdCall[t].reply.handler # NoHandler
               THEN Recorded(rm_, "mdSenders",
                             HandlerOwner(mdCall[t].reply.handler), "repliesReceived")
               ELSE rm_
       IN  rm_' = Recorded(replyReceived, "mdListeners", h.name, "repliesSent")
    /\ UNCHANGED metricsRest
    /\ UNCHANGED simVars

-----------------------------------------------------------------------------
(* The configuration loader: an XML document becomes a SimulatorConfig,      *)
(* which validate_configuration accepts or rejects                           *)
(* (trdp_stack_adapter_stub.cpp lines 296-543)                               *)

\* An attribute that the element has, and one it does not have
Attr(value) == [present |-> TRUE, value |-> value]
NoTextAttr == [present |-> FALSE, value |-> ""]
NoUintAttr == [present |-> FALSE, value |-> 0]

\* The value of an unsigned attribute whose text is not a number
NotANumber == -1

\* std::tolower over the texts the documents use
ToLower(text) ==
    IF text = "Yes" THEN "yes" ELSE IF text = "TRUE" THEN "true" ELSE text

\* optional_attribute (lines 305-309)
optional_attribute(attr, fallback) ==
    IF attr.present THEN attr.value ELSE fallback

\* optional_uint_attribute (lines 311-322): -1 stands for the throw
optional_uint_attribute(attr, fallback) ==
    IF ~attr.present THEN fallback ELSE attr.value

\* optional_bool_attribute (lines 324-340): "throw" stands for the throw
optional_bool_attribute(attr, fallback) ==
    IF ~attr.present THEN IF fallback THEN "true" ELSE "false"
    ELSE IF ToLower(attr.value) \in {"true", "1", "yes"} THEN "true"
    ELSE IF ToLower(attr.value) \in {"false", "0", "no"} THEN "false"
    ELSE "throw"

\* The <network> elements of the documents
NetworkElements ==
    { [present |-> FALSE, interface |-> NoTextAttr],
      [present |-> TRUE, interface |-> NoTextAttr],
      [present |-> TRUE, interface |-> Attr("")],
      [present |-> TRUE, interface |-> Attr("eth1")] }

\* The <publisher> elements of the documents
PublisherElements ==
    { [name |-> Attr("A"), cycleTimeMs |-> Attr(0)],
      [name |-> Attr("A"), cycleTimeMs |-> Attr(5)],
      [name |-> Attr("B"), cycleTimeMs |-> NoUintAttr],
      [name |-> Attr("B"), cycleTimeMs |-> Attr(NotANumber)] }

\* The <subscriber> elements of the documents
SubscriberElements ==
    { [name |-> Attr("A")], [name |-> Attr("B")], [name |-> NoTextAttr] }

\* The <sender> elements of the documents
SenderElements ==
    { [name |-> Attr("A"), expectReply |-> NoTextAttr, replyTimeoutMs |-> Attr(0)],
      [name |-> Attr("A"), expectReply |-> Attr("Yes"), replyTimeoutMs |-> Attr(0)],
      [name |-> Attr("B"), expectReply |-> Attr("1"), replyTimeoutMs |-> NoUintAttr] }

\* The <listener> elements of the documents; replyPayload is the text of the
\* child element
ListenerElements ==
    { [name |-> Attr("A"), autoReply |-> NoTextAttr, replyPayload |-> NoTextAttr],
      [name |-> Attr("A"), autoReply |-> Attr("TRUE"), replyPayload |-> NoTextAttr],
      [name |-> Attr("A"), autoReply |-> Attr("true"), replyPayload |-> Attr("")],
      [name |-> Attr("B"), autoReply |-> Attr("maybe"), replyPayload |-> Attr("0a")],
      [name |-> Attr("B"), autoReply |-> Attr("yes"), replyPayload |-> Attr("0a")] }

\* Sequences over a set of elements, up to MaxElements long
ElementLists(elements) == UNION { [1..k -> elements] : k \in 0..MaxElements }

\* A document with a <trdpSimulator> root
DocumentOf(network, publishers, subscribers, senders, listeners) ==
    [wellFormed |-> TRUE, root |-> "trdpSimulator", network |-> network,
     publishers |-> publishers, subscribers |-> subscribers,
     senders |-> senders, listeners |-> listeners]

EmptyDocument == DocumentOf([present |-> FALSE, interface |-> NoTextAttr],
                            <<>>, <<>>, <<>>, <<>>)

\* Text that is not XML, and a document with another root
BrokenDocuments ==
    { [EmptyDocument EXCEPT !.wellFormed = FALSE],
      [EmptyDocument EXCEPT !.root = "other"] }

\* The files load_configuration is called with: path |-> document, a path
\* not in the domain names no file
ConfigFiles(network, publishers, listeners) ==
    [p \in {"cfg.xml"} |-> DocumentOf(network, publishers, <<>>, <<>>, listeners)]

\* load_pd_publisher (lines 353-371)
load_pd_publisher(element) ==
    [name |-> element.name,
     cycleTimeMs |-> optional_uint_attribute(element.cycleTimeMs, 1000)]

\* load_pd_subscriber (lines 373-385)
load_pd_subscriber(element) == [name |-> element.name]

\* load_md_sender (lines 387-403)
load_md_sender(element) ==
    [name |-> element.name,
     replyTimeoutMs |-> optional_uint_attribute(element.replyTimeoutMs, 1000),
     expectReply |-> optional_bool_attribute(element.expectReply, FALSE)]

\* load_md_listener (lines 405-418)
load_md_listener(element) ==
    [name |-> element.name,
     autoReply |-> optional_bool_attribute(element.autoReply, FALSE),
     replyPayload |-> [value |-> optional_attribute(element.replyPayload, "")]]

\* A helper of the loader has thrown while the items were read
ItemsThrow(items) ==
    \E i \in DOMAIN items :
       \/ ~items[i].name.present
       \/ "cycleTimeMs" \in DOMAIN items[i] /\ items[i].cycleTimeMs = NotANumber
       \/ "replyTimeoutMs" \in DOMAIN items[i] /\ items[i].replyTimeoutMs = NotANumber
       \/ "expectReply" \in DOMAIN items[i] /\ items[i].expectReply = "throw"
       \/ "autoReply" \in DOMAIN items[i] /\ items[i].autoReply = "throw"

\* The items as the SimulatorConfig holds them: the name a string, the flags
\* booleans
Stored(item) ==
    [f \in DOMAIN item |->
        IF f = "name" THEN item.name.value
        ELSE IF f \in {"expectReply", "autoReply"} THEN item[f] = "true"
        ELSE item[f]]

\* load_configuration_from_document (lines 433-476): the SimulatorConfig, or
\* the throw of a helper
load_configuration_from_document(doc) ==
    LET publishers == [i \in DOMAIN doc.publishers |-> load_pd_publisher(doc.publishers[i])]
        subscribers == [i \in DOMAIN doc.subscribers |-> load_pd_subscriber(doc.subscribers[i])]
        senders == [i \in DOMAIN doc.senders |-> load_md_sender(doc.senders[i])]
        listeners == [i \in DOMAIN doc.listeners |-> load_md_listener(doc.listeners[i])]
        config ==
           [network |-> [interfaceName |->
                 IF doc.network.present
                 THEN optional_attribute(doc.network.interface, "eth0") ELSE ""],
            pdPublishers |-> [i \in DOMAIN publishers |-> Stored(publishers[i])],
            pdSubscribers |-> [i \in DOMAIN subscribers |-> Stored(subscribers[i])],
            mdSenders |-> [i \in DOMAIN senders |-> Stored(senders[i])],
            mdListeners |-> [i \in DOMAIN listeners |-> Stored(listeners[i])]]
    IN  IF doc.root # "trdpSimulator"
        THEN [ok |-> FALSE, error |-> "Root element <trdpSimulator> not found"]
        ELSE IF \/ ItemsThrow(publishers) \/ ItemsThrow(subscribers)
                \/ ItemsThrow(senders) \/ ItemsThrow(listeners)
        THEN [ok |-> FALSE, error |-> "Missing or invalid attribute"]
        ELSE [ok |-> TRUE, config |-> config]

\* A check of ensure_unique that lets every list pass
ensure_unique_passes(items) == FALSE

\* ensure_unique (lines 486-493) throws: an insert into the set of names
\* finds the name there
ensure_unique(items) ==
    \E j \in DOMAIN items : \E i \in 1..(j - 1) : items[i].name = items[j].name

\* validate_configuration (lines 480-517): "" when it returns, else the
\* message of the exception
validate_configuration(config) ==
    IF config.network.interfaceName = ""
    THEN "Network interface name must not be empty"
    ELSE IF ensure_unique(config.pdPublishers) THEN "Duplicate PD publisher name"
    ELSE IF ensure_unique(config.pdSubscribers) THEN "Duplicate PD subscriber name"
    ELSE IF ensure_unique(config.mdSenders) THEN "Duplicate MD sender name"
    ELSE IF ensure_unique(config.mdListeners) THEN "Duplicate MD listener name"
    ELSE IF \E i \in DOMAIN config.pdPublishers : config.pdPublishers[i].cycleTimeMs = 0
    THEN "PD publisher must specify cycleTimeMs > 0"
    ELSE IF \E i \in DOMAIN config.mdSenders :
               config.mdSenders[i].expectReply /\ config.mdSenders[i].replyTimeoutMs = 0
    THEN "MD sender expects a reply but replyTimeoutMs is 0"
    ELSE IF \E i \in DOMAIN config.mdListeners :
               config.mdListeners[i].autoReply
                  /\ config.mdListeners[i].replyPayload.value = ""
    THEN "MD listener autoReply requires a replyPayload"
    ELSE ""

\* The part both loaders share (lines 527-529, 540-542): the configuration
\* is returned when validate_configuration has returned
LoadAndValidate(doc) ==
    LET parsed == load_configuration_from_document(doc)
    IN  IF ~parsed.ok
        THEN [returned |-> FALSE, parsed |-> FALSE, error |-> parsed.error]
        ELSE IF validate_configuration(parsed.config) # ""
        THEN [returned |-> FALSE, parsed |-> TRUE, config |-> parsed.config,
              error |-> validate_configuration(parsed.config)]
        ELSE [returned |-> TRUE, parsed |-> TRUE, config |-> parsed.config,
              error |-> ""]

\* load_configuration_from_string (lines 532-543)
load_configuration_from_string(doc) ==
    IF ~doc.wellFormed
    THEN [returned |-> FALSE, parsed |-> FALSE,
          error |-> "Failed to parse configuration XML"]
    ELSE LoadAndValidate(doc)

\* load_configuration (lines 519-530)
load_configuration(files, path) ==
    IF path \notin DOMAIN files \/ ~files[path].wellFormed
    THEN [returned |-> FALSE, parsed |-> FALSE,
          error |-> "Failed to load configuration XML"]
    ELSE LoadAndValidate(files[path])

\* One call of load_configuration_from_string; one call is looked at
LoadConfigurationFromString ==
    /\ ~loaded.called
    /\ \E doc \in BrokenDocuments \cup
                  { DocumentOf(n, p, s, m, l) :
                       n \in NetworkElements,
                       p \in ElementLists(PublisherElements),
                       s \in ElementLists(SubscriberElements),
                       m \in ElementLists(SenderElements),
                       l \in ElementLists(ListenerElements) } :
          loaded' = [called |-> TRUE, op |-> "load_configuration_from_string",
                     result |-> load_configuration_from_string(doc)]
    /\ UNCHANGED <<mutex_, pdRun, web_>>
    /\ UNCHANGED nonAppVars

\* One call of load_configuration
LoadConfiguration ==
    /\ ~loaded.called
    /\ \E n \in NetworkElements, p \in ElementLists(PublisherElements),
          l \in ElementLists(ListenerElements), path \in {"cfg.xml", "none.xml"} :
          loaded' = [called |-> TRUE, op |-> "load_configuration",
                     result |-> load_configuration(ConfigFiles(n, p, l), path)]
    /\ UNCHANGED <<mutex_, pdRun, web_>>
    /\ UNCHANGED nonAppVars

-----------------------------------------------------------------------------
(* The transport's mutex_ made explicit for send_md_request: a thread takes  *)
(* it before each locked block and the handlers run between the blocks       *)
(* (trdp_stack_adapter_stub.cpp lines 113-205)                               *)

MutexReleased == [owner |-> "none", at |-> "none"]

\* std::lock_guard<std::mutex> lock(mutex_) of send_md_request (line 121), of
\* the send_md_reply a listener's handler calls (line 180) and of the erase
\* after the synthetic reply (line 164): the thread gets the mutex when no
\* thread holds it
StubLock(t) ==
    /\ mutex_.owner = "none"
    /\ \/ pc[t] = "idle" /\ Len(requests) < MaxRequests
       \/ pc[t] = "md_deliver"
             /\ HandlerReplies(mdCall[t].listeners[mdCall[t].idx].handler)
       \/ pc[t] = "md_erase"
    /\ mutex_' = [owner |-> t, at |-> pc[t]]
    /\ UNCHANGED <<stubVars, simVars, unitVars, loaded, pdRun, web_>>

\* A send_md_request that keeps the mutex while it invokes the handlers
HeldThroughDelivery(t) == mutex_

\* The mutex at the end of the first block of send_md_request (line 142)
AfterLookup(t) == MutexReleased

\* send_md_request, the block under the lock (lines 120-142)
LockedRequest(t) ==
    /\ mutex_ = [owner |-> t, at |-> "idle"]
    /\ \E n \in {"S1", "S2"} : \E data \in RequestData : SendMdRequestLocked(t, n, data)
    /\ mutex_' = AfterLookup(t)
    /\ UNCHANGED <<simVars, unitVars, loaded, pdRun, web_>>

\* One turn of the listener loop (lines 150-154): a handler that replies has
\* taken the mutex inside send_md_reply and releases it before the reply
\* handler runs (lines 179-197); another handler takes no lock
LockedDeliver(t) ==
    /\ pc[t] = "md_deliver"
    /\ IF HandlerReplies(mdCall[t].listeners[mdCall[t].idx].handler)
       THEN /\ mutex_ = [owner |-> t, at |-> "md_deliver"]
            /\ mutex_' = MutexReleased
       ELSE UNCHANGED mutex_
    /\ SendMdRequestDeliver(t)
    /\ UNCHANGED <<simVars, unitVars, loaded, pdRun, web_>>

\* The reply handler runs with no lock taken (line 204)
UnlockedReplyHandler(t) ==
    /\ SendMdRequestNestedReply(t)
    /\ UNCHANGED mutex_
    /\ UNCHANGED <<simVars, unitVars, loaded, pdRun, web_>>

\* The synthetic reply is handed over with no lock taken (line 162)
UnlockedSynthetic(t) ==
    /\ SendMdRequestSynthetic(t)
    /\ UNCHANGED mutex_
    /\ UNCHANGED <<simVars, unitVars, loaded, pdRun, web_>>

\* The erase after the synthetic reply (lines 164-165)
LockedErase(t) ==
    /\ mutex_ = [owner |-> t, at |-> "md_erase"]
    /\ SendMdRequestErase(t)
    /\ mutex_' = MutexReleased
    /\ UNCHANGED <<simVars, unitVars, loaded, pdRun, web_>>

\* send_md_request returns
UnlockedReturn(t) ==
    /\ MdReturn(t)
    /\ mutex_' = IF mutex_.owner = t THEN MutexReleased ELSE mutex_
    /\ UNCHANGED <<simVars, unitVars, loaded, pdRun, web_>>

\* register_md_sender, one locked block (lines 107-111)
LockedRegisterSender ==
    /\ mutex_.owner = "none"
    /\ \E s \in MdSenderOffers :
          s.config.name \notin DOMAIN mdSenders_ /\ RegisterMdSender(s.config, s.handler)
    /\ UNCHANGED mutex_
    /\ UNCHANGED <<simVars, unitVars, loaded, pdRun, web_>>

\* register_md_listener, one locked block (lines 169-173)
LockedRegisterListener ==
    /\ mutex_.owner = "none"
    /\ \E l \in MdListenerOffers : RegisterMdListener(l.config, l.handler)
    /\ UNCHANGED mutex_
    /\ UNCHANGED <<simVars, unitVars, loaded, pdRun, web_>>

\* What a thread inside send_md_request can do
RequestStep(t) ==
    \/ StubLock(t)
    \/ LockedRequest(t)
    \/ LockedDeliver(t)
    \/ UnlockedReplyHandler(t)
    \/ UnlockedSynthetic(t)
    \/ LockedErase(t)
    \/ UnlockedReturn(t)

-----------------------------------------------------------------------------
(* A run with PD endpoints on the loopback transport: run() attaches the     *)
(* subscribers, constructs the publisher workers and starts them; the        *)
(* workers publish and the handlers record (part_011 lines 65-74, 103-109;   *)
(* part_007 lines 42-60)                                                     *)

\* The publisher each worker thread owns
WorkerPublisher(t) == IF t = "t1" THEN "P1" ELSE "P2"

pdCountRest == <<mdVars, simVars, metricsUnits, loaded, mutex_, web_>>

\* One turn of the loop over config_.pdSubscribers (lines 65-74): the
\* subscriber is registered with the handler that records under its name;
\* the names of a configuration are unique
CountAttachSubscriber(config) ==
    /\ pdRun.phase = "subscribers"
    /\ \A i \in DOMAIN pdSubscribers_ : pdSubscribers_[i].config.name # config.name
    /\ RegisterPdSubscriber(config, PdHandlerOf(config.name))
    /\ UNCHANGED <<pdRun, rm_>>
    /\ UNCHANGED <<simVars, metricsUnits, loaded, mutex_, web_>>

\* setup_pd_workers, one turn (lines 199-204): the worker's constructor
\* registers the publisher
CountSetupPdWorker(config) ==
    /\ pdRun.phase \in {"subscribers", "workers"}
    /\ config.name \notin DOMAIN pdPublishers_
    /\ RegisterPdPublisher(config)
    /\ pdRun' = [pdRun EXCEPT !.phase = "workers"]
    /\ UNCHANGED rm_
    /\ UNCHANGED <<simVars, metricsUnits, loaded, mutex_, web_>>

\* The workers are started (lines 107-109)
CountStartWorkers ==
    /\ pdRun.phase = "workers"
    /\ pdRun' = [pdRun EXCEPT !.phase = "started"]
    /\ UNCHANGED <<pdVars, pc, rm_>>
    /\ UNCHANGED pdCountRest

\* PdPublisherWorker::run calls publish_pd (part_007 line 53)
CountPublish(t, data) ==
    /\ pdRun.phase = "started"
    /\ WorkerPublisher(t) \in DOMAIN pdPublishers_
    /\ PublishPdLocked(t, WorkerPublisher(t), data)
    /\ UNCHANGED <<pdRun, rm_>>
    /\ UNCHANGED <<simVars, metricsUnits, loaded, mutex_, web_>>

\* A handler that records nothing
OnPdReceivedSilent(m, name) == m

\* The subscriber's handler (part_011 lines 67-72): record_pd_receive
OnPdReceived(m, name) == Recorded(m, "pdSubscribers", name, "packetsReceived")

\* One turn of the delivery loop of publish_pd: the subscriber's handler runs
CountDeliver(t) ==
    /\ PublishPdDeliver(t)
    /\ rm_' = OnPdReceived(rm_, pdCall[t].targets[pdCall[t].idx].config.name)
    /\ UNCHANGED pdRun
    /\ UNCHANGED <<simVars, metricsUnits, loaded, mutex_, web_>>

\* publish_pd returns and the worker records the send (part_007 line 54)
CountRecordPublish(t) ==
    /\ PublishPdReturn(t)
    /\ rm_' = IF pdCall[t].result = "ok"
              THEN Recorded(rm_, "pdPublishers", pdCall[t].name, "packetsSent")
              ELSE rm_
    /\ UNCHANGED pdRun
    /\ UNCHANGED <<simVars, metricsUnits, loaded, mutex_, web_>>

-----------------------------------------------------------------------------
(* The web application: start_simulator and stop_simulator are called by the *)
(* thread of the accept loop, one after the other; simulator_worker is the   *)
(* thread start_simulator creates, and it is the thread that calls           *)
(* Simulator::run (web_application.cpp lines 995-1078, 1358-1423)            *)

\* The WebApplication after construction
WebConstructed ==
    [pc |-> [http |-> "idle", worker |-> "none"],
     simulator_running_ |-> FALSE, simulator_start_pending_ |-> FALSE,
     active_simulator_ |-> FALSE, simulator_thread_ |-> "none",
     simulator |-> FALSE, started |-> "none", stopped |-> "none"]

\* simulator_thread_.joinable()
ThreadJoinable(thread) == thread \in {"active", "finished"}

webRest == <<loaded, mutex_, pdRun>>

\* start_simulator up to its wait (lines 997-1019): the flags are clear, the
\* thread is created
StartSimulator ==
    /\ web_.pc.http = "idle"
    /\ ~(web_.simulator_running_ \/ web_.simulator_start_pending_)
    /\ ~ThreadJoinable(web_.simulator_thread_)
    /\ web_' = [web_ EXCEPT !.pc.http = "start_wait", !.pc.worker = "w_load",
                            !.simulator_start_pending_ = TRUE,
                            !.simulator_thread_ = "active"]
    /\ UNCHANGED webRest
    /\ UNCHANGED nonAppVars

\* simulator_worker up to run() (lines 1361-1380): load_configuration or the
\* construction throws and the catch block clears the flags (lines 1394-1420,
\* simulator is null), or the simulator is published under the lock
WorkerLoad(ok) ==
    /\ web_.pc.worker = "w_load"
    /\ web_' = IF ok
               THEN [web_ EXCEPT !.pc.worker = "w_run",
                                 !.active_simulator_ = TRUE,
                                 !.simulator_running_ = TRUE,
                                 !.simulator_start_pending_ = FALSE]
               ELSE [web_ EXCEPT !.pc.worker = "w_done",
                                 !.active_simulator_ = FALSE,
                                 !.simulator_running_ = FALSE,
                                 !.simulator_start_pending_ = FALSE,
                                 !.simulator_thread_ = "finished"]
    /\ UNCHANGED webRest
    /\ UNCHANGED nonAppVars

\* start_simulator wakes from simulator_cv_.wait and returns (lines 1019-1028)
StartReturn ==
    /\ web_.pc.http = "start_wait"
    /\ ~web_.simulator_start_pending_
    /\ web_' = [web_ EXCEPT !.pc.http = "ready",
                            !.started = IF web_.simulator_running_
                                        THEN "true" ELSE "false"]
    /\ UNCHANGED webRest
    /\ UNCHANGED nonAppVars

\* simulator->run() is called (line 1382)
WorkerCallsRun ==
    /\ web_.pc.worker = "w_run"
    /\ RunEnter(MaxRuns)

\* run() has returned: the locked block after it (lines 1384-1394), and the
\* thread ends
WorkerAfterRun ==
    /\ web_.pc.worker = "w_run"
    /\ simPc["main"] = "idle" /\ hist.runs > 0 /\ hist.lastRun = "ok"
    /\ web_' = [web_ EXCEPT !.pc.worker = "w_done",
                            !.simulator_running_ = FALSE,
                            !.active_simulator_ = FALSE,
                            !.simulator_thread_ = "finished"]
    /\ UNCHANGED webRest
    /\ UNCHANGED nonAppVars

\* run() has thrown: the catch block is entered (line 1395)
WorkerCatch ==
    /\ web_.pc.worker = "w_run"
    /\ simPc["main"] = "idle" /\ hist.runs > 0
    /\ hist.lastRun \in {"init_failed", "error"}
    /\ web_' = [web_ EXCEPT !.pc.worker = "w_catch_stop"]
    /\ UNCHANGED webRest
    /\ UNCHANGED nonAppVars

\* simulator->stop() of the catch block (line 1400)
WorkerCallsStop ==
    /\ web_.pc.worker = "w_catch_stop"
    /\ hist.lastRun # "ok"
    /\ StopEnter("main", MaxStops)

\* The locked block of the catch (lines 1406-1420), and the thread ends
WorkerCatchDone ==
    /\ web_.pc.worker = "w_catch_stop"
    /\ simPc["main"] = "idle" /\ hist.lastRun = "ok"
    /\ web_' = [web_ EXCEPT !.pc.worker = "w_done",
                            !.simulator_running_ = FALSE,
                            !.simulator_start_pending_ = FALSE,
                            !.active_simulator_ = FALSE,
                            !.simulator_thread_ = "finished"]
    /\ UNCHANGED webRest
    /\ UNCHANGED nonAppVars

\* stop_simulator, its first locked block (lines 1034-1046)
StopSimulatorLocked ==
    /\ web_.pc.http = "ready"
    /\ web_' = IF ~web_.simulator_running_ /\ ~web_.simulator_start_pending_
               THEN [web_ EXCEPT !.pc.http = "stop_idle_join"]
               ELSE [web_ EXCEPT !.pc.http = "stop_call",
                                 !.simulator = web_.active_simulator_]
    /\ UNCHANGED webRest
    /\ UNCHANGED nonAppVars

\* stop_simulator when nothing runs (lines 1037-1043): the join of a joinable
\* thread, then "Simulator is not running"
StopIdleJoin ==
    /\ web_.pc.http = "stop_idle_join"
    /\ ThreadJoinable(web_.simulator_thread_) => web_.simulator_thread_ = "finished"
    /\ web_' = [web_ EXCEPT !.pc.http = "returned", !.stopped = "false",
                            !.simulator_thread_ =
                               IF ThreadJoinable(@) THEN "joined" ELSE @]
    /\ UNCHANGED webRest
    /\ UNCHANGED nonAppVars

\* simulator->stop() of stop_simulator (lines 1050-1052)
StopCallsStop ==
    /\ web_.pc.http = "stop_call"
    /\ web_.simulator
    /\ hist.returned = 0
    /\ StopEnter("s1", MaxStops)

\* stop() has returned, or there was no simulator to stop (lines 1050-1054)
StopAfterStop ==
    /\ web_.pc.http = "stop_call"
    /\ web_.simulator => (simPc["s1"] = "idle" /\ hist.returned > 0)
    /\ web_' = [web_ EXCEPT !.pc.http = "stop_join"]
    /\ UNCHANGED webRest
    /\ UNCHANGED nonAppVars

\* simulator_thread_.join() (lines 1056-1058) returns when the thread has
\* ended
StopJoin ==
    /\ web_.pc.http = "stop_join"
    /\ ThreadJoinable(web_.simulator_thread_) => web_.simulator_thread_ = "finished"
    /\ web_' = [web_ EXCEPT !.pc.http = "stop_final",
                            !.simulator_thread_ =
                               IF ThreadJoinable(@) THEN "joined" ELSE @]
    /\ UNCHANGED webRest
    /\ UNCHANGED nonAppVars

\* The last locked block of stop_simulator (lines 1060-1075), return true
StopFinal ==
    /\ web_.pc.http = "stop_final"
    /\ web_' = [web_ EXCEPT !.pc.http = "returned", !.stopped = "true",
                            !.simulator_running_ = FALSE,
                            !.simulator_start_pending_ = FALSE,
                            !.active_simulator_ = FALSE]
    /\ UNCHANGED webRest
    /\ UNCHANGED nonAppVars

-----------------------------------------------------------------------------

Init ==
    /\ pdPublishers_ = EmptyMap
    /\ pdSubscribers_ = <<>>
    /\ mdSenders_ = EmptyMap
    /\ mdListeners_ = <<>>
    /\ mdSessions_ = EmptyMap
    /\ nextSessionId_ = <<0, 1>>
    /\ pc = [t \in Threads |-> "idle"]
    /\ pdCall = [t \in Threads |-> IdlePdCall]
    /\ mdCall = [t \in Threads |-> IdleMdCall]
    /\ pubOrdinal = [n \in PubNames |-> 0]
    /\ requests = <<>>
    /\ bursts = 0
    /\ running_ = FALSE
    /\ cleanedUp_ = FALSE
    /\ metrics_ = MetricsReset
    /\ adapter_ = AdapterReleased
    /\ pdWorkers_ = <<>>
    /\ mdWorkers_ = <<>>
    /\ eventThread_ = [state |-> "none", epoch |-> 0, tick |-> FALSE]
    /\ simPc = [c \in SimThreads |-> "idle"]
    /\ simCall = [c \in SimThreads |-> IdleSimCall]
    /\ hist = [runs |-> 0, stops |-> 0, returned |-> 0, cleanups |-> 0,
               registered |-> 0, stopRequested |-> FALSE,
               stopSinceStore |-> FALSE, stoppedRuns |-> {},
               trail |-> <<>>,
               lastRun |-> "none", afterFailStop |-> FALSE, reuse |-> FALSE,
               stopErr |-> FALSE, doubleJoin |-> FALSE, clearRace |-> FALSE]
    /\ resolved = [called |-> FALSE, payload |-> NoPayload, result |-> Bytes(<<>>)]
    /\ worker_ = NoWorker
    /\ wkPc = [t \in WkThreads |-> "idle"]
    /\ wkCall = [t \in WkThreads |-> IdleWkCall]
    /\ wkHist = [ops |-> 0, handed |-> <<>>, outcomes |-> <<>>, quiet |-> FALSE,
                 startCalls |-> 0,
                 sentAfterStop |-> FALSE, terminated |-> FALSE, applied |-> {},
                 startSends |-> [c \in WkCallers |-> 0], started |-> {},
                 spawned |-> 0, stopCalls |-> 0, shown |-> {},
                 updates |-> [c \in WkCallers |->
                     [returned |-> 0, ok |-> FALSE, error_message |-> <<>>]]]
    /\ rm_ = MetricsBaseline
    /\ rmPc = [t \in RmThreads |-> "idle"]
    /\ rmCall = [t \in RmThreads |-> IdleRmCall]
    /\ rmHist = [ops |-> 0, resets |-> 0,
                 completed |-> [k \in {<<kind[1], n, kind[2]>> :
                                          kind \in RecordKinds, n \in RmNames} |-> 0],
                 window |-> [t \in RmThreads |-> {}],
                 snapshots |-> <<>>]
    /\ loaded = [called |-> FALSE, op |-> "none",
                 result |-> [returned |-> FALSE, parsed |-> FALSE, error |-> ""]]
    /\ mutex_ = MutexReleased
    /\ pdRun = [phase |-> "subscribers"]
    /\ web_ = WebConstructed


NextPd ==
    \/ /\ UNCHANGED nonStubVars
       /\ \E n \in PubNames : \E config \in PdPublisherConfigs(n) :
             RegisterPdPublisher(config)
    \/ /\ UNCHANGED nonStubVars
       /\ \E s \in PdSubscriberOffers : RegisterPdSubscriber(s.config, s.handler)
    \/ /\ UNCHANGED nonStubVars
       /\ \E t \in PdCallers : \E n \in PubNames : \E data \in Payloads :
             PublishPdLocked(t, n, data)
    \/ /\ UNCHANGED nonStubVars
       /\ \E t \in PdCallers : PublishPdDeliver(t)
    \/ /\ UNCHANGED nonStubVars
       /\ \E t \in PdCallers : PublishPdReturn(t)
    \/ /\ UNCHANGED nonStubVars
       /\ Shutdown

SpecPd == Init /\ [][NextPd]_vars

\* One publisher and one subscriber, each with any configuration over Ips and
\* ComIds, and publishes between them
NextPdMatch ==
    \/ /\ UNCHANGED nonStubVars
       /\ /\ DOMAIN pdPublishers_ = {}
          /\ \E config \in AllPdPublisherConfigs : RegisterPdPublisher(config)
    \/ /\ UNCHANGED nonStubVars
       /\ /\ pdSubscribers_ = <<>>
          /\ \E config \in AllPdSubscriberConfigs :
                RegisterPdSubscriber(config, PdHandlerOf(config.name))
    \/ /\ UNCHANGED nonStubVars
       /\ \E t \in PdCallers : \E data \in Payloads : PublishPdLocked(t, "P1", data)
    \/ /\ UNCHANGED nonStubVars
       /\ \E t \in PdCallers : PublishPdDeliver(t)
    \/ /\ UNCHANGED nonStubVars
       /\ \E t \in PdCallers : PublishPdReturn(t)

SpecPdMatch == Init /\ [][NextPdMatch]_vars

NextMd ==
    \/ /\ UNCHANGED nonStubVars
       /\ \E s \in MdSenderOffers : RegisterMdSender(s.config, s.handler)
    \/ /\ UNCHANGED nonStubVars
       /\ \E l \in MdListenerOffers : RegisterMdListener(l.config, l.handler)
    \/ /\ UNCHANGED nonStubVars
       /\ \E t \in MdRequesters : \E n \in SenderNames : \E data \in RequestData :
             SendMdRequestLocked(t, n, data)
    \/ /\ UNCHANGED nonStubVars
       /\ \E t \in MdRequesters : SendMdRequestDeliver(t)
    \/ /\ UNCHANGED nonStubVars
       /\ \E t \in MdRequesters : SendMdRequestNestedReply(t)
    \/ /\ UNCHANGED nonStubVars
       /\ \E t \in MdRequesters : SendMdRequestSynthetic(t)
    \/ /\ UNCHANGED nonStubVars
       /\ \E t \in MdRequesters : SendMdRequestErase(t)
    \/ /\ UNCHANGED nonStubVars
       /\ \E t \in MdRequesters : \E n \in SenderNames : SendMdRequestBurst(t, n)
    \/ /\ UNCHANGED nonStubVars
       /\ \E t \in Threads : \E a \in ReplyArguments :
             \E n \in ReplyListenerNames : \E data \in ReplyData :
                SendMdReplyLocked(t, n, a.request, a.arg, data)
    \/ /\ UNCHANGED nonStubVars
       /\ \E t \in Threads : SendMdReplyInvoke(t)
    \/ /\ UNCHANGED nonStubVars
       /\ \E t \in Threads : MdReturn(t)
    \/ /\ UNCHANGED nonStubVars
       /\ Shutdown

SpecMd == Init /\ [][NextMd]_vars

\* Process data and message data together, one calling thread: publisher P1,
\* subscriber SubA, senders S1 and S2 and listener L1 can be registered, and
\* calls name any publisher or sender, so P2 and S3 are unknown names
NextUnknown ==
    \/ /\ UNCHANGED nonStubVars
       /\ \E config \in PdPublisherConfigs("P1") : RegisterPdPublisher(config)
    \/ /\ UNCHANGED nonStubVars
       /\ \E s \in PdSubscriberOffers :
             s.config.name = "SubA" /\ RegisterPdSubscriber(s.config, s.handler)
    \/ /\ UNCHANGED nonStubVars
       /\ \E n \in PubNames : \E data \in RequestData : PublishPdLocked("t1", n, data)
    \/ /\ UNCHANGED nonStubVars
       /\ PublishPdDeliver("t1")
    \/ /\ UNCHANGED nonStubVars
       /\ PublishPdReturn("t1")
    \/ /\ UNCHANGED nonStubVars
       /\ \E s \in MdSenderOffers :
             s.config.name \in {"S1", "S2"} /\ RegisterMdSender(s.config, s.handler)
    \/ /\ UNCHANGED nonStubVars
       /\ \E l \in MdListenerOffers :
             l.config.name = "L1" /\ RegisterMdListener(l.config, l.handler)
    \/ /\ UNCHANGED nonStubVars
       /\ \E n \in SenderNames : \E data \in RequestData :
             SendMdRequestLocked("t1", n, data)
    \/ /\ UNCHANGED nonStubVars
       /\ SendMdRequestDeliver("t1")
    \/ /\ UNCHANGED nonStubVars
       /\ SendMdRequestNestedReply("t1")
    \/ /\ UNCHANGED nonStubVars
       /\ SendMdRequestSynthetic("t1")
    \/ /\ UNCHANGED nonStubVars
       /\ SendMdRequestErase("t1")
    \/ /\ UNCHANGED nonStubVars
       /\ MdReturn("t1")
    \/ /\ UNCHANGED nonStubVars
       /\ Shutdown

SpecUnknown == Init /\ [][NextUnknown]_vars

\* The same, with a second thread that calls send_md_reply for any request
\* made so far or for a forged one
NextShutdown ==
    \/ NextUnknown
    \/ /\ UNCHANGED nonStubVars
       /\ \E a \in ReplyArguments : \E n \in ReplyListenerNames : \E data \in ReplyData :
             SendMdReplyLocked("t2", n, a.request, a.arg, data)
    \/ /\ UNCHANGED nonStubVars
       /\ SendMdReplyInvoke("t2")

SpecShutdown == Init /\ [][NextShutdown]_vars

-----------------------------------------------------------------------------
(* The simulator's specifications *)

\* A step of run() once it has been entered
RunStep ==
    \/ RunResetMetrics
    \/ RunSetSimulatorRunning
    \/ RunSetInitializing
    \/ \E ok \in BOOLEAN : RunInitialize(ok)
    \/ RunSetRunningStatus
    \/ RunInitFailedStatus
    \/ RunInitFailedThrow
    \/ RunStoreRunning
    \/ RunClearCleanedUp
    \/ RunRegisterSubscriber
    \/ \E ok \in BOOLEAN : RunRegisterListener(ok)
    \/ RunErrorStatus
    \/ RunErrorThrow
    \/ RunSetupPdWorker
    \/ RunSetupMdWorker
    \/ RunStartEventLoop
    \/ RunStartPdWorker
    \/ RunStartMdWorker
    \/ RunWake
    \/ RunCheckCleanedUp
    \/ RunSetCleanedUp

\* A step of the stop() that thread c is in
StopStep(c) ==
    \/ StopExchange(c)
    \/ StopReadPriorState(c)
    \/ StopCheckCleanup(c)
    \/ StopSetCleanedUp(c)
    \/ StopPdWorker(c)
    \/ StopPdJoin(c)
    \/ StopMdWorker(c)
    \/ StopMdJoin(c)
    \/ StopPollJoinable(c)
    \/ StopPollJoin(c)
    \/ StopShutdownAdapter(c)
    \/ StopClearPdWorkers(c)
    \/ StopClearMdWorkers(c)
    \/ StopSetStatus(c)
    \/ StopReturn(c)

\* A step of a worker thread or of the poll thread
TaskStep ==
    \/ PollTurn
    \/ \E i \in 1..MaxWorkers : PdWorkerRun(i)
    \/ \E i \in 1..MaxWorkers : MdWorkerRun(i)

\* No stop() of another thread is in progress
NoStopInProgress == \A c \in Stoppers : simPc[c] = "idle"

\* run() by one thread and stop() by another, which calls it at any time
NextSim ==
    \/ RunEnter(MaxRuns)
    \/ RunStep
    \/ StopEnter("s1", MaxStops)
    \/ \E c \in {"main", "s1"} : StopStep(c)
    \/ TaskStep

SpecSim == Init /\ [][NextSim]_vars

\* The same with every thread that is inside a call, and every task, taking
\* its steps
SpecSimFair ==
    /\ Init /\ [][NextSim]_vars
    /\ WF_vars(RunStep)
    /\ \A c \in {"main", "s1"} : WF_vars(StopStep(c))
    /\ WF_vars(TaskStep)

\* run() by one thread and stop() by two others, which call it while run() is
\* blocked in its wait
NextSimStops ==
    \/ RunEnter(MaxRuns)
    \/ RunStep
    \/ \E c \in Stoppers : simPc["main"] = "r_wait" /\ StopEnter(c, MaxStops)
    \/ \E c \in SimThreads : StopStep(c)
    \/ TaskStep

SpecSimStops == Init /\ [][NextSimStops]_vars

\* Calls made one after the other: run() is entered when no call is in
\* progress, stop() when no other stop() is in progress and run() is not in
\* progress or is blocked in its wait
NextSimSeq ==
    \/ NoStopInProgress /\ RunEnter(MaxSeqRuns)
    \/ RunStep
    \/ /\ NoStopInProgress
       /\ simPc["main"] \in {"idle", "r_wait"}
       /\ StopEnter("s1", MaxSeqStops)
    \/ \E c \in {"main", "s1"} : StopStep(c)
    \/ TaskStep

SpecSimSeq ==
    /\ Init /\ [][NextSimSeq]_vars
    /\ WF_vars(RunStep)
    /\ \A c \in {"main", "s1"} : WF_vars(StopStep(c))
    /\ WF_vars(TaskStep)

\* One sender and up to MaxMatchListeners listeners, each with any
\* configuration over MatchIps and MatchComIds, the listeners with a handler
\* or without one, and one request between them
NextMdMatch ==
    \/ /\ UNCHANGED nonStubVars
       /\ /\ DOMAIN mdSenders_ = {}
          /\ \E config \in AllMdSenderConfigs :
                RegisterMdSender(config, MdReplyHandlerOf(config.name))
    \/ /\ UNCHANGED nonStubVars
       /\ \E config \in AllMdListenerConfigs(MatchListenerName(Len(mdListeners_) + 1)) :
          \E handler \in {NoListenerHandler,
                           MdListenerHandlerOf(config.name, FALSE, <<>>)} :
             RegisterMdListenerUpTo(config, handler, MaxMatchListeners)
    \/ /\ UNCHANGED nonStubVars
       /\ /\ requests = <<>>
          /\ \E t \in MdRequesters : \E n \in {"S1", "S2"} : \E data \in RequestData :
                SendMdRequestLocked(t, n, data)
    \/ /\ UNCHANGED nonStubVars
       /\ \E t \in MdRequesters : SendMdRequestDeliver(t)
    \/ /\ UNCHANGED nonStubVars
       /\ \E t \in MdRequesters : MdReturn(t)

SpecMdMatch == Init /\ [][NextMdMatch]_vars

\* Two threads in send_md_request, with the mutex taken and released step by
\* step, an auto-reply listener and senders with and without expectReply
NextMdLock ==
    \/ LockedRegisterSender
    \/ LockedRegisterListener
    \/ \E t \in Threads : StubLock(t)
    \/ \E t \in Threads : LockedRequest(t)
    \/ \E t \in Threads : LockedDeliver(t)
    \/ \E t \in Threads : UnlockedReplyHandler(t)
    \/ \E t \in Threads : UnlockedSynthetic(t)
    \/ \E t \in Threads : LockedErase(t)
    \/ \E t \in Threads : UnlockedReturn(t)

\* Every thread that can take a step of its call takes one, and a thread
\* that waits for the mutex gets it when the mutex is free again and again
SpecMdLock ==
    /\ Init /\ [][NextMdLock]_vars
    /\ \A t \in Threads : WF_vars(RequestStep(t))
    /\ \A t \in Threads : SF_vars(StubLock(t))

\* The configuration loader on its own: one call with every document made of
\* the elements above
NextConfig ==
    \/ LoadConfigurationFromString
    \/ LoadConfiguration

SpecConfig == Init /\ [][NextConfig]_vars

\* run() called again by its thread as soon as it has returned, with stop()
\* called by another thread while run() is blocked in its wait
NextSimRerun ==
    \/ RunEnter(MaxSeqRuns)
    \/ RunStep
    \/ simPc["main"] = "r_wait" /\ StopEnter("s1", MaxStops)
    \/ \E c \in {"main", "s1"} : StopStep(c)
    \/ TaskStep

SpecSimRerun == Init /\ [][NextSimRerun]_vars

\* Payload resolution on its own: load_payload is called with every string
\* over Alphabet up to MaxHexLen characters
NextPayload ==
    \/ LoadHexPayload
    \/ LoadOtherPayload

SpecPayload == Init /\ [][NextPayload]_vars

\* One worker: it is constructed as a PD publisher, a cyclic MD sender or an
\* MD sender with cycleTimeMs = 0, then two threads call its operations
NextWorker ==
    \/ \E kind \in {"pd", "md"}, cycleTimeMs \in {0, 1} :
          (kind = "pd" => cycleTimeMs > 0) /\ WkConstruct(kind, cycleTimeMs)
    \/ \E c \in WkCallers, ok \in BOOLEAN : WkStartSendOnce(c, ok)
    \/ \E c \in WkCallers : WkStartRecord(c)
    \/ \E c \in WkCallers : WkStartExchange(c)
    \/ \E c \in WkCallers : WkStartSpawn(c)
    \/ \E c \in WkCallers : WkStopExchange(c)
    \/ \E c \in WkCallers : WkStopJoinable(c)
    \/ \E c \in WkCallers : WkStopJoin(c)
    \/ WkRunCheck
    \/ WkRunCopy
    \/ \E ok \in BOOLEAN : WkRunCall(ok)
    \/ WkRunRecord
    \/ \E c \in WkCallers : WkPayloadConfig(c)
    \/ \E c \in WkCallers, payloadSpec \in UpdateInputs : WkUpdateResolve(c, payloadSpec)
    \/ \E c \in WkCallers : WkUpdateLock(c)
    \/ \E c \in WkCallers : WkUpdateBytes(c)
    \/ \E c \in WkCallers : WkUpdateSpec(c)

SpecWorker == Init /\ [][NextWorker]_vars

\* The metrics aggregator called by two threads
NextMetrics ==
    \/ \E t \in RmThreads, kind \in RecordKinds, name \in RmNames :
          RmLock(t, "record", kind[1], name, kind[2], FALSE)
    \/ \E t \in RmThreads : RmLock(t, "reset", "", "", "", FALSE)
    \/ \E t \in RmThreads, flag \in BOOLEAN :
          RmLock(t, "set_simulator_running", "", "", "", flag)
    \/ \E t \in RmThreads, flag \in BOOLEAN :
          RmLock(t, "set_adapter_status", "", "", "", flag)
    \/ \E t \in RmThreads : RmLock(t, "snapshot", "", "", "", FALSE)
    \/ \E t \in RmThreads : RmEnsure(t)
    \/ \E t \in RmThreads : RmIncrement(t)
    \/ \E t \in RmThreads : RmReset(t)
    \/ \E t \in RmThreads : RmSetSimulatorRunning(t)
    \/ \E t \in RmThreads : RmSetAdapterStatus(t)
    \/ \E t \in RmThreads : RmSnapshotFlags(t)
    \/ \E t \in RmThreads : RmSnapshotTables(t)

SpecMetrics == Init /\ [][NextMetrics]_vars

\* Requests on the loopback transport with the listeners as Simulator::run
\* registers them and the metrics their handlers record
NextAutoReply ==
    \/ /\ UNCHANGED nonStubVars
       /\ \E s \in MdSenderOffers : RegisterMdSender(s.config, s.handler)
    \/ \E l \in ListenerConfigs : AttachListener(l)
    \/ /\ UNCHANGED nonStubVars
       /\ \E t \in MdRequesters : \E n \in SenderNames : \E data \in RequestData :
             SendMdRequestLocked(t, n, data)
    \/ \E t \in MdRequesters : HandlerDeliver(t)
    \/ \E t \in MdRequesters : HandlerReplied(t)
    \/ /\ UNCHANGED nonStubVars
       /\ \E t \in MdRequesters : SendMdRequestSynthetic(t)
    \/ /\ UNCHANGED nonStubVars
       /\ \E t \in MdRequesters : SendMdRequestErase(t)
    \/ /\ UNCHANGED nonStubVars
       /\ \E t \in MdRequesters : MdReturn(t)

SpecAutoReply == Init /\ [][NextAutoReply]_vars

\* One run with PD endpoints: up to MaxSubscribers subscribers, publishers P1
\* and P2 with a worker thread each
NextPdCount ==
    \/ \E s \in PdSubscriberOffers : CountAttachSubscriber(s.config)
    \/ \E n \in PubNames : \E config \in PdPublisherConfigs(n) :
          CountSetupPdWorker(config)
    \/ CountStartWorkers
    \/ \E t \in Threads : \E data \in Payloads : CountPublish(t, data)
    \/ \E t \in Threads : CountDeliver(t)
    \/ \E t \in Threads : CountRecordPublish(t)

SpecPdCount == Init /\ [][NextPdCount]_vars

\* The steps of the thread of the accept loop
HttpStep ==
    \/ StartSimulator
    \/ StartReturn
    \/ StopSimulatorLocked
    \/ StopIdleJoin
    \/ StopCallsStop
    \/ StopStep("s1")
    \/ StopAfterStop
    \/ StopJoin
    \/ StopFinal

\* The steps of the simulator thread
WorkerStep ==
    \/ \E ok \in BOOLEAN : WorkerLoad(ok)
    \/ WorkerCallsRun
    \/ RunStep
    \/ StopStep("main")
    \/ WorkerAfterRun
    \/ WorkerCatch
    \/ WorkerCallsStop
    \/ WorkerCatchDone

\* The web application with one simulator: start_simulator, then
\* stop_simulator; every thread that can take a step takes one: the thread
\* of the accept loop, the simulator thread, the poll thread, each worker
NextWeb ==
    \/ StartSimulator
    \/ \E ok \in BOOLEAN : WorkerLoad(ok)
    \/ StartReturn
    \/ WorkerCallsRun
    \/ RunStep
    \/ WorkerAfterRun
    \/ WorkerCatch
    \/ WorkerCallsStop
    \/ WorkerCatchDone
    \/ StopSimulatorLocked
    \/ StopIdleJoin
    \/ StopCallsStop
    \/ \E c \in {"main", "s1"} : StopStep(c)
    \/ StopAfterStop
    \/ StopJoin
    \/ StopFinal
    \/ TaskStep

SpecWeb ==
    /\ Init /\ [][NextWeb]_vars
    /\ WF_vars(HttpStep)
    /\ WF_vars(WorkerStep)
    /\ WF_vars(PollTurn)
    /\ \A i \in 1..MaxWorkers : WF_vars(PdWorkerRun(i))
    /\ \A i \in 1..MaxWorkers : WF_vars(MdWorkerRun(i))

-----------------------------------------------------------------------------
(* Properties of process data *)

\* The three conditions of delivery, as stated: ComId (a), source IP (b),
\* destination IP (c)
PdDeliveryConditions(subscriber, publisher) ==
    /\ \/ ~subscriber.enableComIdFiltering
       \/ subscriber.comId = 0
       \/ subscriber.comId = publisher.comId
    /\ \/ subscriber.sourceIp = ""
       \/ publisher.destIp = ""
       \/ subscriber.sourceIp = publisher.destIp
    /\ \/ subscriber.destIp = ""
       \/ publisher.sourceIp = ""
       \/ subscriber.destIp = publisher.sourceIp

\* A publish_pd call of thread t that found its publisher and is about to return
PdCompleted(t) == pc[t] = "pd_done" /\ pdCall[t].result = "ok"

\* The handlers a finished publish_pd call has invoked
PdInvokedHandlers(t) == {pdCall[t].invoked[j].handler : j \in DOMAIN pdCall[t].invoked}

\* C6: when publish_pd returns, a subscriber that was registered (with a
\* handler) when the call took the lock has been delivered to if and only if
\* the three conditions (a), (b), (c) hold between it and the publisher.
C6_DeliveryIffConditions ==
    \A t \in Threads :
        PdCompleted(t) =>
            \A i \in DOMAIN pdCall[t].subscribers :
                LET sub == pdCall[t].subscribers[i]
                IN  sub.handler # NoHandler =>
                        (sub.handler \in PdInvokedHandlers(t)
                            <=> PdDeliveryConditions(sub.config, pdCall[t].publisher))

\* C6 witness: a publish was delivered to a subscriber with filtering on whose
\* ComId and source IP equal the publisher's ComId and destination IP
C6_Witness ==
    \E t \in Threads :
        /\ PdCompleted(t)
        /\ Len(pdCall[t].invoked) = 1
        /\ \E i \in DOMAIN pdCall[t].subscribers :
              LET sub == pdCall[t].subscribers[i].config
              IN  /\ sub.enableComIdFiltering
                  /\ sub.comId # 0
                  /\ sub.comId = pdCall[t].publisher.comId
                  /\ sub.sourceIp # ""
                  /\ sub.sourceIp = pdCall[t].publisher.destIp

\* The subscribers a publish has to reach, in registration order
PdExpected(t) ==
    SelectSeq(pdCall[t].subscribers,
              LAMBDA s : s.handler # NoHandler
                           /\ PdDeliveryConditions(s.config, pdCall[t].publisher))

\* C7: when a successful publish_pd(P, B) returns, the handlers it has invoked
\* are those of the matching subscribers, each once and in registration order,
\* and every message carried P's ComId and the payload B.
C7_DeliveryInRegistrationOrder ==
    \A t \in Threads :
        PdCompleted(t) =>
            /\ Len(pdCall[t].invoked) = Len(PdExpected(t))
            /\ \A i \in DOMAIN pdCall[t].invoked :
                  /\ pdCall[t].invoked[i].handler = PdExpected(t)[i].handler
                  /\ pdCall[t].invoked[i].message.comId = pdCall[t].publisher.comId
                  /\ pdCall[t].invoked[i].message.payload = pdCall[t].data

\* C7 witness: a publish that reached two different subscribers
C7_Witness ==
    \E t \in Threads :
        /\ PdCompleted(t)
        /\ Len(pdCall[t].invoked) = 2
        /\ pdCall[t].invoked[1].handler # pdCall[t].invoked[2].handler

C10_DuplicateRegistrationRejected ==
    [][\A n \in DOMAIN pdPublishers_ :
          n \in DOMAIN pdPublishers_' =>
              /\ pdPublishers_'[n].config = pdPublishers_[n].config
              /\ pdPublishers_'[n].sequenceCounter >= pdPublishers_[n].sequenceCounter]_vars

-----------------------------------------------------------------------------
(* Properties of message data *)

\* A send_md_reply call has taken the session with this id and has not yet
\* run the reply handler
ReplyInFlight(sessionId) ==
    \E t \in Threads :
        /\ pc[t] \in {"md_nested", "reply_invoke"}
        /\ mdCall[t].reply.message.sessionId = sessionId

\* C1: for every session created for a sender with a reply handler and
\* expectReply=true (and not dropped by shutdown), the send_md_reply calls
\* carrying its session id invoke the sender's reply handler exactly once in
\* total: never twice, and once as soon as such a call has finished.
C1_ReplyExactlyOnce ==
    \A i \in DOMAIN requests :
        LET r == requests[i]
        IN  (r.handler # NoHandler /\ r.expectReply /\ ~r.dropped) =>
                /\ r.delivered <= 1
                /\ (r.answered /\ ~ReplyInFlight(r.message.sessionId))
                      => r.delivered = 1

\* C2: for every send_md_request call the sender's reply handler runs at most
\* once, replies through send_md_reply and the synthetic reply taken together.
C2_ReplyAtMostOncePerRequest ==
    \A i \in DOMAIN requests :
        requests[i].delivered + requests[i].synthetic <= 1

\* C3: a reply made with the message of a request is handed only to the reply
\* handler of the sender of that request, with that request's session id.
C3_ReplyToOwnSender ==
    \A i \in DOMAIN requests :
        \A p \in requests[i].repliedTo :
            /\ p[1] = requests[i].handler
            /\ p[2] = requests[i].message.sessionId

\* A send_md_request call of thread t, for a sender with a reply handler and
\* expectReply=false, that is about to return
FireAndForgetCompleted(t) ==
    /\ pc[t] = "md_done"
    /\ mdCall[t].op = "send_md_request"
    /\ mdCall[t].result = "ok"
    /\ ~mdCall[t].expectReply
    /\ mdCall[t].replyHandler # NoHandler

\* C4: when send_md_request returns for a sender with a reply handler and
\* expectReply=false, the handler has received the synthetic reply, which has
\* an empty payload and the session id of the request, and that session id is
\* not pending.
C4_SyntheticReplyBeforeReturn ==
    \A t \in Threads :
        FireAndForgetCompleted(t) =>
            /\ requests[mdCall[t].req].synthetic = 1
            /\ mdCall[t].synthetic.payload = <<>>
            /\ mdCall[t].synthetic.sessionId = mdCall[t].request.sessionId
            /\ mdCall[t].request.sessionId \notin DOMAIN mdSessions_

\* C4 witness: such a call is about to return, after a listener was reached
C4_Witness ==
    \E t \in Threads :
        /\ FireAndForgetCompleted(t)
        /\ mdCall[t].listeners # <<>>

\* C5: the session id a send_md_request generates is never the id of a session
\* that is still pending.
C5_FreshSessionId ==
    [][Len(requests') = Len(requests) + 1 =>
          requests'[Len(requests')].message.sessionId \notin DOMAIN mdSessions_]_vars

-----------------------------------------------------------------------------
(* Unknown endpoint names *)

\* The adapter's tables and session counter
transportVars == <<pdPublishers_, pdSubscribers_, mdSenders_, mdListeners_,
                   mdSessions_, nextSessionId_>>

\* Thread t enters publish_pd in this step
PdCallStarts(t) == pc[t] = "idle" /\ pc'[t] \in {"pd_deliver", "pd_done"}

\* Thread t enters send_md_request in this step
MdRequestStarts(t) ==
    pc[t] = "idle" /\ pc'[t] \in {"md_deliver", "md_synth", "md_done"}

\* C9: publish_pd for a publisher name that is not registered and
\* send_md_request for a sender name that is not registered end with an
\* error, invoke no handler and change nothing: no sequence counter, no
\* session id, no session, no table.
C9_UnknownNameChangesNothing ==
    [][\A t \in Threads :
          /\ (PdCallStarts(t) /\ pdCall'[t].name \notin DOMAIN pdPublishers_) =>
                /\ pdCall'[t].result = "error"
                /\ pc'[t] = "pd_done"
                /\ pdCall'[t].invoked = <<>>
                /\ UNCHANGED <<transportVars, pubOrdinal, requests>>
          /\ (MdRequestStarts(t) /\ mdCall'[t].name \notin DOMAIN mdSenders_) =>
                /\ mdCall'[t].result = "error"
                /\ pc'[t] = "md_done"
                /\ UNCHANGED <<transportVars, pubOrdinal, requests>>]_vars

\* C9 witness: send_md_request for an unknown sender has failed while a session
\* is pending, a listener is registered and a publisher has published
C9_Witness ==
    \E t \in Threads :
        /\ pc[t] = "md_done"
        /\ mdCall[t].result = "error"
        /\ DOMAIN mdSessions_ # {}
        /\ mdListeners_ # <<>>
        /\ \E n \in DOMAIN pdPublishers_ : pdPublishers_[n].sequenceCounter >= 1

-----------------------------------------------------------------------------
(* shutdown *)

\* Every registration table and the session table are empty
Released ==
    /\ DOMAIN pdPublishers_ = {}
    /\ pdSubscribers_ = <<>>
    /\ DOMAIN mdSenders_ = {}
    /\ mdListeners_ = <<>>
    /\ DOMAIN mdSessions_ = {}

\* Thread t enters send_md_reply in this step and a session takes the reply
ReplyDelivers(t) == pc[t] = "idle" /\ pc'[t] = "reply_invoke"

\* C11: shutdown never fails and is idempotent.  A shutdown step leaves every
\* registration table and the session table empty; in that state publish_pd
\* and send_md_request fail for every name, send_md_reply delivers nothing for
\* every request made so far, and shutdown (a second one, or one on a transport
\* that was never used) changes nothing.
C11_ShutdownReleasesAll ==
    [][/\ ENABLED Shutdown
       /\ Shutdown => Released'
       /\ Released =>
             /\ Shutdown => UNCHANGED transportVars
             /\ \A t \in Threads :
                   /\ PdCallStarts(t) => pdCall'[t].result = "error"
                   /\ MdRequestStarts(t) => mdCall'[t].result = "error"
                   /\ ~ReplyDelivers(t)]_vars

\* C11 witness: after a shutdown that dropped a pending session and removed a
\* publisher that had published, a call on a name of before has failed
C11_Witness ==
    /\ Released
    /\ \E r \in DOMAIN requests : requests[r].dropped /\ ~requests[r].answered
    /\ \E t \in Threads : pc[t] = "md_done" /\ mdCall[t].result = "error"
                             /\ \E r \in DOMAIN requests :
                                    requests[r].sender = mdCall[t].name

-----------------------------------------------------------------------------
(* send_md_reply without a pending session *)

\* C12: send_md_reply with a session id that names no pending session, called
\* directly with any listener name or by an auto-reply listener from inside
\* send_md_request, returns without error, invokes no handler and leaves the
\* tables, the session table and the session counter unchanged.
C12_ReplyWithoutSessionIsNoOp ==
    [][/\ \A t \in Threads : \A a \in ReplyArguments :
             \A n \in ReplyListenerNames : \A data \in ReplyData :
                (/\ a.request.sessionId \notin DOMAIN mdSessions_
                 /\ SendMdReplyLocked(t, n, a.request, a.arg, data)) =>
                    /\ UNCHANGED <<transportVars, pc, mdCall>>
                    /\ \A r \in DOMAIN requests :
                          /\ requests'[r].delivered = requests[r].delivered
                          /\ requests'[r].repliedTo = requests[r].repliedTo
       /\ \A t \in Threads :
             (/\ pc[t] = "md_deliver"
              /\ mdCall[t].request.sessionId \notin DOMAIN mdSessions_
              /\ SendMdRequestDeliver(t)) =>
                 /\ UNCHANGED transportVars
                 /\ pc'[t] # "md_nested"
                 /\ mdCall'[t].result = "ok"
                 /\ \A r \in DOMAIN requests :
                       requests'[r].delivered = requests[r].delivered]_vars

\* C12 witness: a send_md_reply for a request whose session is not pending has
\* run and reached no handler, while another session is pending
C12_Witness ==
    \E r \in DOMAIN requests :
        /\ requests[r].answered
        /\ requests[r].delivered = 0
        /\ requests[r].repliedTo = {}
        /\ requests[r].message.sessionId \notin DOMAIN mdSessions_
        /\ DOMAIN mdSessions_ # {}

-----------------------------------------------------------------------------
(* The simulator's lifecycle *)

\* C13: a stop() call made by another thread at any moment after run() has
\* been entered, also while run() is still initializing, makes that run()
\* return eventually.
C13_StopMakesRunReturn == hist.stopRequested ~> (simPc["main"] = "idle")

\* Thread c is inside the cleanup sequence of stop() (lines 145-171)
InCleanup(c) ==
    simPc[c] \in {"s_pd", "s_pd_join", "s_md", "s_md_join", "s_poll",
                  "s_poll_join", "s_shutdown", "s_clear_pd", "s_clear_md"}

\* C14: with stop() called by several threads, or by a thread and by run()
\* after it woke up, the cleanup sequence is executed by at most one thread
\* and at most once per run: never two threads inside it, the poll thread
\* never joined twice, no worker collection changed while another thread
\* walks over it.
C14_CleanupAtMostOnce ==
    /\ Cardinality({c \in SimThreads : InCleanup(c)}) <= 1
    /\ hist.cleanups <= 1
    /\ ~hist.doubleJoin
    /\ ~hist.clearRace

\* A task that run() number e started is executing
TaskOfRunExecuting(e) ==
    \/ \E i \in DOMAIN pdWorkers_ :
          pdWorkers_[i].epoch = e /\ Active(pdWorkers_[i].thread)
    \/ \E i \in DOMAIN mdWorkers_ :
          mdWorkers_[i].epoch = e /\ Active(mdWorkers_[i].thread)
    \/ eventThread_.epoch = e /\ eventThread_.state = "running"

\* C15: once a stop() call that was made during a run() has returned, no PD
\* publisher task, MD sender task or poll task of that run() is executing.
C15_NoTaskAfterStop == \A e \in hist.stoppedRuns : ~TaskOfRunExecuting(e)

\* Every configured worker exists and runs, and the poll thread runs
AllTasksRunning ==
    /\ Len(pdWorkers_) = Len(config_.pdPublishers)
    /\ Len(mdWorkers_) = Len(config_.mdSenders)
    /\ \A i \in DOMAIN pdWorkers_ :
          /\ pdWorkers_[i].running /\ Active(pdWorkers_[i].thread)
          /\ pdWorkers_[i].epoch = hist.runs
    /\ \A i \in DOMAIN mdWorkers_ :
          /\ mdWorkers_[i].running /\ Active(mdWorkers_[i].thread)
          /\ mdWorkers_[i].epoch = hist.runs
    /\ eventThread_.state = "running"
    /\ eventThread_.epoch = hist.runs

\* C16: once initialization has succeeded, a normal return of run() is
\* preceded by a stop() request (one that cleared running_ after run() had
\* set it), and as long as stop() has not been called run() stays blocked in
\* its wait while the workers and the poll task run.
C16_RunReturnsOnlyAfterStop ==
    /\ hist.lastRun = "ok" => hist.stopSinceStore
    /\ (simPc["main"] = "r_wait" /\ hist.stops = 0) =>
          /\ ~ENABLED RunWake
          /\ AllTasksRunning

\* C16 witness: run() has returned normally
C16_Witness == hist.lastRun = "ok" /\ simPc["main"] = "idle"

\* C17: called one after the other, stop() before any run(), stop() after
\* run() has returned and two stop() calls in a row raise no error and each
\* return.
C17_SequentialStopReturns ==
    /\ [](~hist.stopErr)
    /\ (simPc["s1"] # "idle") ~> (simPc["s1"] = "idle")

\* C17 witness: stop() before run(), a run() that came back, and two stop()
\* calls in a row have all returned
C17_Witness ==
    /\ hist.trail = <<"stop", "run", "stop", "stop">>
    /\ hist.returned = 3
    /\ \A c \in SimThreads : simPc[c] = "idle"

\* An adapter state string that records a failure
IsFailureState(state) == state[1] \in {"Initialization failed", "Error"}

\* C18: when initialize fails inside run(), run() ends with the error, the
\* metrics show simulatorRunning = false, adapterInitialized = false and an
\* adapter state that describes the failure, and that run() has registered
\* nothing and started no task.
C18_InitFailureLeavesNothing ==
    hist.lastRun = "init_failed" =>
        /\ simPc["main"] = "idle"
        /\ ~metrics_.simulatorRunning
        /\ ~metrics_.adapterInitialized
        /\ metrics_.adapterState = StateInitFailed
        /\ hist.registered = 0
        /\ ~TaskOfRunExecuting(hist.runs)

\* Thread c writes the adapter status at the end of stop() in this step
StopWritesStatus(c) == simPc[c] = "s_status" /\ simPc'[c] = "s_setrun"

\* C19: stop() sets the adapter state to "Stopped" and simulatorRunning to
\* false, except that an adapter state that records a failure is left as it
\* is: a failure state is never overwritten by "Stopped".
C19_FailureStateKept ==
    [][\A c \in SimThreads :
          /\ StopWritesStatus(c) =>
                metrics_'.adapterState =
                    IF IsFailureState(metrics_.adapterState)
                    THEN metrics_.adapterState ELSE StateStopped
          /\ (simPc[c] = "s_setrun" /\ simPc'[c] = "idle") =>
                ~metrics_'.simulatorRunning]_vars

\* The transport with every configured endpoint registered once
AdapterRegisteredOnce ==
    [initialized |-> TRUE, pdSubscribers |-> config_.pdSubscribers,
     mdListeners |-> config_.mdListeners, pdPublishers |-> config_.pdPublishers,
     mdSenders |-> config_.mdSenders]

\* C20: a run() that follows a run() whose initialization failed and a stop()
\* behaves as on a fresh instance: the metrics are reset, every configured
\* subscriber, listener and worker is registered exactly once, the workers and
\* the poll task run, and a later stop() makes that run() return.
C20_ReusableAfterInitFailure ==
    /\ [](hist.reuse =>
            /\ simPc["main"] = "r_setrun" => metrics_ = MetricsReset
            /\ (simPc["main"] = "r_wait" /\ ~hist.stopSinceStore) =>
                  /\ metrics_.simulatorRunning
                  /\ metrics_.adapterInitialized
                  /\ metrics_.adapterState = StateRunning
                  /\ adapter_ = AdapterRegisteredOnce
                  /\ AllTasksRunning)
    /\ (hist.reuse /\ simPc["main"] = "r_wait" /\ simPc["s1"] # "idle")
          ~> (simPc["main"] = "idle" /\ hist.lastRun = "ok")

\* C20 witness: run() failed in initialize, stop(), run() again, stop(), and
\* the second run() has returned
C20_Witness ==
    /\ hist.trail = <<"run", "stop", "run", "stop">>
    /\ hist.reuse
    /\ hist.lastRun = "ok"
    /\ \A c \in SimThreads : simPc[c] = "idle"

-----------------------------------------------------------------------------
(* Properties of payload resolution *)

HexDigitsLower == <<"0", "1", "2", "3", "4", "5", "6", "7", "8", "9",
                    "a", "b", "c", "d", "e", "f">>
HexDigitsUpper == <<"0", "1", "2", "3", "4", "5", "6", "7", "8", "9",
                    "A", "B", "C", "D", "E", "F">>

IsHexDigit(c) ==
    \E v \in 1..16 : c = HexDigitsLower[v] \/ c = HexDigitsUpper[v]

\* The value 0..15 a hex digit stands for
DigitValue(c) ==
    (CHOOSE v \in 1..16 : c = HexDigitsLower[v] \/ c = HexDigitsUpper[v]) - 1

IsWhitespace(c) == c \in {" ", "\t", "\n", "\f", "\r"}

\* The string without its whitespace characters
RECURSIVE Stripped(_)
Stripped(s) ==
    IF s = <<>> THEN <<>>
    ELSE IF IsWhitespace(Head(s)) THEN Stripped(Tail(s))
    ELSE <<Head(s)>> \o Stripped(Tail(s))

\* Two digits per byte, high nibble first
BytesOfDigits(digits) ==
    [i \in 1..(Len(digits) \div 2) |->
        16 * DigitValue(digits[2 * i - 1]) + DigitValue(digits[2 * i])]

\* C30: load_payload of a Hex payload gives the same outcome as for the
\* string without its whitespace; when the rest is an even number of hex
\* digits it gives their bytes, two digits per byte, high nibble first, either
\* case; when the number of non-whitespace characters is odd or one of them
\* is no hex digit it fails.
C30_HexIgnoresWhitespace ==
    (resolved.called /\ resolved.payload.format = "Hex") =>
        LET value == resolved.payload.value
            digits == Stripped(value)
            allHex == \A i \in DOMAIN digits : IsHexDigit(digits[i])
            stripped == load_payload([format |-> "Hex", value |-> digits])
        IN  /\ resolved.result.ok = stripped.ok
            /\ resolved.result.data = stripped.data
            /\ (allHex /\ Len(digits) % 2 = 0) =>
                  /\ resolved.result.ok
                  /\ resolved.result.data = BytesOfDigits(digits)
            /\ (~allHex \/ Len(digits) % 2 # 0) =>
                  /\ ~resolved.result.ok
                  /\ resolved.result.error # <<>>

\* A string with whitespace inside and digits of both cases was resolved
C30_Witness ==
    /\ resolved.called
    /\ resolved.payload = [format |-> "Hex", value |-> <<"a", "\n", "F", " ">>]
    /\ resolved.result.ok
    /\ resolved.result.data = <<175>>

-----------------------------------------------------------------------------
(* Properties of the cyclic workers *)

\* C21: once a stop() call of a worker has returned, and until start() is
\* called again, nothing is handed to publish_pd or send_md_request; this
\* for every caller, also when two threads call stop() at the same time.
C21_NoSendAfterStopReturned == ~wkHist.sentAfterStop

\* The number of calls that returned without error
OkCalls == Cardinality({i \in DOMAIN wkHist.outcomes : wkHist.outcomes[i]})

\* The threads that have made a call that returned and have yet to record it
AboutToRecord ==
    {t \in WkThreads : \/ t = "w" /\ wkPc[t] = "w_record"
                       \/ wkPc[t] = "st_record" /\ wkCall[t].ok}

\* The sent counter of the worker's endpoint
SentCounter ==
    Reported(rm_, WkTable(worker_.kind), worker_.name, WkCounter(worker_.kind))

\* The loop has just had a call that threw
FailedCallStep ==
    /\ wkPc["w"] = "w_call"
    /\ wkPc'["w"] # "w_call"
    /\ Len(wkHist'.outcomes) = Len(wkHist.outcomes) + 1
    /\ ~wkHist'.outcomes[Len(wkHist'.outcomes)]

\* C22: the sent counter of the endpoint is the number of publish_pd /
\* send_md_request calls that returned without error (less those a thread is
\* about to record), and an iteration whose call fails changes no counter and
\* leaves the worker's thread in its loop, at the test of running_.
C22_FailedCallNotCounted ==
    /\ [](worker_.built => SentCounter = OkCalls - Cardinality(AboutToRecord))
    /\ [][FailedCallStep =>
            /\ rm_' = rm_
            /\ wkPc'["w"] = "w_check"
            /\ worker_'.workerThread_ = "active"]_vars

\* One thread's loop had a call that failed, then one that returned, and has
\* counted the second only
C22_Witness ==
    /\ wkHist.spawned = 1
    /\ wkHist.startCalls = 1
    /\ wkHist.outcomes = <<FALSE, TRUE>>
    /\ SentCounter = 1
    /\ wkPc["w"] = "w_check"

\* A caller's update_payload has just returned failure
UpdateFailedStep(c) ==
    /\ wkHist'.updates[c].returned = wkHist.updates[c].returned + 1
    /\ ~wkHist'.updates[c].ok

\* C23: an update_payload that returns failure gives a non-empty error
\* message and leaves the worker's payload bytes and its payload spec as they
\* were.
C23_FailedUpdateKeepsPayload ==
    [][\A c \in WkCallers :
          UpdateFailedStep(c) =>
             /\ wkHist'.updates[c].error_message # <<>>
             /\ worker_'.payload_ = worker_.payload_
             /\ worker_'.payloadSpec = worker_.payloadSpec]_vars

\* Hex with an odd digit count was refused and the next cycle published the
\* bytes of the initial spec
C23_Witness ==
    /\ wkHist.updates["a"].returned = 1
    /\ ~wkHist.updates["a"].ok
    /\ wkHist.updates["a"].error_message =
          <<"Hex payload must contain an even number of characters">>
    /\ wkHist.ops = 2
    /\ worker_.payloadSpec = InitialPayload
    /\ wkHist.handed = << <<10>> >>

\* C24: every payload handed to publish_pd or send_md_request is the resolved
\* bytes of the initial spec or of one update that succeeds, and whenever
\* payloadMutex_ is free the active bytes are those of the active spec.
C24_PayloadNeverMixed ==
    /\ \A i \in DOMAIN wkHist.handed : wkHist.handed[i] \in wkHist.applied
    /\ (worker_.built /\ worker_.payloadMutex_ = "none") =>
          worker_.payload_ = load_payload(worker_.payloadSpec).data

-----------------------------------------------------------------------------
(* Properties of the metrics *)

\* What a Snapshot shows for a name and a counter: the counter of the entry
\* of that name, 0 when the vector has no such entry
SnapshotValue(snap, table, name, counter) ==
    LET found == {i \in DOMAIN snap[table] : snap[table][i].name = name}
    IN  IF found = {} THEN 0
        ELSE snap[table][CHOOSE i \in found : TRUE][counter]

\* No reset() completes in this step
NoResetStep == rmHist'.resets = rmHist.resets

\* C27: for every name and counter, what snapshot() would report is the
\* number of record_* calls for them completed since the last reset(), under
\* every interleaving of the calling threads; and a step in which no reset()
\* completes decreases no counter.
C27_CountersCountCompletedCalls ==
    /\ [](\A k \in DOMAIN rmHist.completed :
             SnapshotValue(SnapshotOf(rm_), k[1], k[2], k[3]) = rmHist.completed[k])
    /\ [][NoResetStep =>
            \A k \in DOMAIN rmHist.completed :
               SnapshotValue(SnapshotOf(rm_'), k[1], k[2], k[3])
                  >= SnapshotValue(SnapshotOf(rm_), k[1], k[2], k[3])]_vars

\* record_pd_publish("P1") has completed twice and a third call has the lock
\* and has read the entry
C27_Witness ==
    /\ rmHist.resets = 0
    /\ rmHist.completed[<<"pdPublishers", "P1", "packetsSent">>] = 2
    /\ \E t \in RmThreads :
          /\ rmPc[t] = "rm_increment"
          /\ rmCall[t].table = "pdPublishers"
          /\ rmCall[t].name = "P1"
          /\ rmCall[t].entry.packetsSent = 2

\* C28: a Snapshot that snapshot() returned equals the metrics as they were at
\* one instant of the call at which no other operation was half done, and no
\* later step changes a Snapshot already returned.
C28_SnapshotIsAtomicCopy ==
    /\ [](\A i \in DOMAIN rmHist.snapshots :
             rmHist.snapshots[i].snap \in rmHist.snapshots[i].window)
    /\ [][\A i \in DOMAIN rmHist.snapshots :
             /\ i \in DOMAIN rmHist'.snapshots
             /\ rmHist'.snapshots[i] = rmHist.snapshots[i]]_vars

\* A Snapshot was returned showing one publish and the running flag set, and
\* the metrics have since been reset
C28_Witness ==
    /\ Len(rmHist.snapshots) = 1
    /\ SnapshotValue(rmHist.snapshots[1].snap, "pdPublishers", "P1", "packetsSent") = 1
    /\ rmHist.snapshots[1].snap.simulatorRunning
    /\ rmHist.resets = 1
    /\ rm_ = MetricsBaseline

\* A request is inside a listener's handler
RequestInFlight == \E t \in Threads : pc[t] = "md_nested"

\* C26: whenever no request is in flight, every registered auto-reply
\* listener has sent as many replies as it has received requests.
C26_AutoReplyAnswersEveryRequest ==
    ~RequestInFlight =>
        \A i \in DOMAIN mdListeners_ :
            LET listener == mdListeners_[i].config
            IN  listener.autoReply =>
                   Reported(rm_, "mdListeners", listener.name, "repliesSent")
                      = Reported(rm_, "mdListeners", listener.name, "requestsReceived")

-----------------------------------------------------------------------------
(* Properties of the metrics across runs *)

\* run() has entered and has not yet reset the metrics
BeforeReset == simPc["main"] = "r_reset"

\* C29: the first step run() takes on the metrics sets them to the Idle
\* baseline, and from then on, during the run and after it, the counters hold
\* events of the workers of that run only, never of an earlier run.
C29_CountersOfThisRunOnly ==
    /\ [](~BeforeReset => metrics_.counted \subseteq {hist.runs})
    /\ [][BeforeReset /\ ~BeforeReset' => metrics_' = MetricsReset]_vars

-----------------------------------------------------------------------------
(* Properties of the configuration loader *)

\* Two entries of a list have the same name
SameNameTwice(items) ==
    Cardinality({items[i].name : i \in DOMAIN items}) < Len(items)

\* The faults a configuration can have
Faulty(config) ==
    \/ config.network.interfaceName = ""
    \/ SameNameTwice(config.pdPublishers)
    \/ SameNameTwice(config.pdSubscribers)
    \/ SameNameTwice(config.mdSenders)
    \/ SameNameTwice(config.mdListeners)
    \/ \E i \in DOMAIN config.pdPublishers : config.pdPublishers[i].cycleTimeMs = 0
    \/ \E i \in DOMAIN config.mdSenders :
          config.mdSenders[i].expectReply /\ config.mdSenders[i].replyTimeoutMs = 0
    \/ \E i \in DOMAIN config.mdListeners :
          config.mdListeners[i].autoReply /\ config.mdListeners[i].replyPayload.value = ""

\* C31: a configuration that was read from a document is rejected by
\* validate_configuration exactly when its interface name is empty, two
\* entries of one category share a name, a PD publisher has cycleTimeMs 0, an
\* MD sender expects a reply with replyTimeoutMs 0, or an auto-reply listener
\* has an empty replyPayload value; the loaders return a configuration only
\* when it has none of these faults, and return nothing when reading failed.
C31_RejectsExactlyFaulty ==
    loaded.called =>
       /\ loaded.result.parsed =>
             /\ loaded.result.returned <=> ~Faulty(loaded.result.config)
             /\ loaded.result.error # "" <=> Faulty(loaded.result.config)
       /\ ~loaded.result.parsed => ~loaded.result.returned

\* A document whose only fault is two MD senders of the same name was rejected
C31_Witness ==
    /\ loaded.called
    /\ loaded.op = "load_configuration_from_string"
    /\ loaded.result.parsed
    /\ ~loaded.result.returned
    /\ loaded.result.error = "Duplicate MD sender name"
    /\ Len(loaded.result.config.pdPublishers) = 2
    /\ Len(loaded.result.config.mdListeners) = 2
    /\ \A i \in DOMAIN loaded.result.config.mdSenders :
          ~loaded.result.config.mdSenders[i].expectReply

-----------------------------------------------------------------------------
(* Properties of message data delivery *)

\* The conditions under which a listener is to get the request of a sender
ListenerIsAddressed(listener, sender) ==
    /\ listener.comId = 0 \/ listener.comId = sender.comId
    /\ listener.destIp = "" \/ sender.destIp = "" \/ listener.destIp = sender.destIp
    /\ listener.sourceIp = "" \/ sender.sourceIp = ""
          \/ listener.sourceIp = sender.sourceIp

\* The deliveries due to the listeners that were registered, with a handler,
\* when the call took the lock: in registration order, each with the message
DueDeliveries(registered, sender, message) ==
    LET due == SelectSeq(registered,
                   LAMBDA l : l.handler.present /\ ListenerIsAddressed(l.config, sender))
    IN  [i \in DOMAIN due |-> [listener |-> due[i].config.name, message |-> message]]

\* C32: when send_md_request is about to return, it has invoked, once each
\* and in registration order, the handlers of exactly the listeners that were
\* registered when it took the lock and whose ComId is 0 or the sender's, and
\* whose destIp and sourceIp are empty, or empty at the sender, or equal;
\* the message has the new session id, the sender's ComId and the payload;
\* and a call that found its sender registered ends without error, also when
\* no listener matches.
C32_RequestReachesMatchingListeners ==
    \A t \in Threads :
       (pc[t] = "md_done" /\ mdCall[t].op = "send_md_request"
           /\ mdCall[t].req # 0 /\ mdCall[t].name \in DOMAIN mdSenders_) =>
          LET c == mdCall[t]
              sender == mdSenders_[c.name].config
              message == [endpoint |-> c.request.endpoint,
                          comId |-> sender.comId,
                          sessionId |-> requests[c.req].message.sessionId,
                          payload |-> c.data]
          IN  /\ c.result = "ok"
              /\ c.invoked = DueDeliveries(c.registered, sender, message)

\* A request reached the second of two listeners only, the first having
\* another ComId
C32_Witness ==
    \E t \in Threads :
       /\ pc[t] = "md_done"
       /\ mdCall[t].op = "send_md_request"
       /\ mdCall[t].result = "ok"
       /\ Len(mdCall[t].registered) = 2
       /\ \A i \in DOMAIN mdCall[t].registered : mdCall[t].registered[i].handler.present
       /\ mdCall[t].registered[1].config.comId = 2
       /\ mdCall[t].registered[2].config.destIp = "A"
       /\ Len(mdCall[t].invoked) = 1
       /\ mdCall[t].invoked[1].listener = "Lb"

-----------------------------------------------------------------------------
(* Properties of the start of a run *)

\* Every configured PD subscriber and MD listener is registered
SubscribersAndListenersRegistered ==
    /\ adapter_.pdSubscribers = config_.pdSubscribers
    /\ adapter_.mdListeners = config_.mdListeners

\* C33: while run() is in progress and no stop() has been requested, the
\* metrics report the adapter state "Running" only when every PD subscriber
\* and MD listener has been registered, every worker has been constructed and
\* started and the poll task has been started.
C33_RunningOnlyWhenAllStarted ==
    (simPc["main"] # "idle" /\ ~hist.stopRequested
        /\ metrics_.adapterState = StateRunning) =>
       /\ SubscribersAndListenersRegistered
       /\ AllTasksRunning

-----------------------------------------------------------------------------
(* Properties of the transport's lock *)

\* Thread t's publish_pd invokes a subscriber's handler in this step
PdHandlerInvoked(t) == Len(pdCall'[t].invoked) > Len(pdCall[t].invoked)

\* Thread t's send_md_request invokes a listener's handler in this step
MdHandlerInvoked(t) == Len(mdCall'[t].invoked) > Len(mdCall[t].invoked)

\* C34: a subscriber's or listener's handler is invoked only while its
\* registration is in the transport's table: no handler is invoked after a
\* shutdown() that removed its registration has returned.
C34_NoHandlerAfterShutdown ==
    [][\A t \in Threads :
          /\ PdHandlerInvoked(t) =>
                \E i \in DOMAIN pdSubscribers_ :
                   pdSubscribers_[i] = pdCall[t].targets[pdCall[t].idx]
          /\ MdHandlerInvoked(t) =>
                \E i \in DOMAIN mdListeners_ :
                   mdListeners_[i] = mdCall[t].listeners[mdCall[t].idx]]_vars

-----------------------------------------------------------------------------
(* Properties of the entries of a Snapshot *)

MetricTables == {"pdPublishers", "pdSubscribers", "mdSenders", "mdListeners"}

\* The names that have an entry in a table of a Snapshot
NamesIn(snap, table) == {snap[table][i].name : i \in DOMAIN snap[table]}

\* The names for which a record_* call on the table has completed since the
\* last reset()
NamesRecorded(table) ==
    {k[2] : k \in {key \in DOMAIN rmHist.completed :
                      key[1] = table /\ rmHist.completed[key] > 0}}

\* An entry has a counter that is not zero
HasEvent(entry) == \E f \in DOMAIN entry \ {"name"} : entry[f] > 0

\* C35: what snapshot() reports when it gets the lock has, in every category,
\* an entry for exactly the names for which an event has been recorded since
\* the last reset(), and every entry of a Snapshot that was returned has a
\* counter that is not zero.
C35_EntriesOnlyForRecordedNames ==
    /\ rm_.mutex_ = "none" =>
          \A table \in MetricTables :
             NamesIn(SnapshotOf(rm_), table) = NamesRecorded(table)
    /\ \A i \in DOMAIN rmHist.snapshots : \A table \in MetricTables :
          \A j \in DOMAIN rmHist.snapshots[i].snap[table] :
             HasEvent(rmHist.snapshots[i].snap[table][j])

\* A Snapshot showed P1 among the publishers and no listener; after a reset
\* and a request received by L1 the metrics name L1 only
C35_Witness ==
    /\ Len(rmHist.snapshots) = 1
    /\ NamesIn(rmHist.snapshots[1].snap, "pdPublishers") = {"P1"}
    /\ NamesIn(rmHist.snapshots[1].snap, "mdListeners") = {}
    /\ rmHist.resets = 1
    /\ rm_.mutex_ = "none"
    /\ NamesIn(SnapshotOf(rm_), "mdListeners") = {"L1"}
    /\ NamesIn(SnapshotOf(rm_), "pdPublishers") = {}

-----------------------------------------------------------------------------
(* Properties of the first send of a run *)

\* The number of endpoints of the configuration
ConfiguredEndpoints ==
    Len(config_.pdSubscribers) + Len(config_.mdListeners)
       + Len(config_.pdPublishers) + Len(config_.mdSenders)

\* Every endpoint of the configured list is in the registered list
RegisteredAmong(registered, configured) ==
    \A i \in DOMAIN configured :
        \E j \in DOMAIN registered : registered[j] = configured[i]

\* Every configured endpoint is registered with the transport
EverythingRegistered ==
    /\ RegisteredAmong(adapter_.pdSubscribers, config_.pdSubscribers)
    /\ RegisteredAmong(adapter_.mdListeners, config_.mdListeners)
    /\ RegisteredAmong(adapter_.pdPublishers, config_.pdPublishers)
    /\ RegisteredAmong(adapter_.mdSenders, config_.mdSenders)

\* A worker of the current run is started (an MD sender with cycleTimeMs 0
\* sends inside start()), or its loop publishes or sends, in this step
WorkerStartsOrSends ==
    \/ \E i \in DOMAIN pdWorkers_ :
          /\ i \in DOMAIN pdWorkers_'
          /\ \/ ~pdWorkers_[i].running /\ pdWorkers_'[i].running
             \/ PdWorkerRun(i) /\ pdWorkers_[i].running
          /\ pdWorkers_'[i].epoch = hist.runs
    \/ \E i \in DOMAIN mdWorkers_ :
          /\ i \in DOMAIN mdWorkers_'
          /\ \/ ~mdWorkers_[i].running /\ mdWorkers_'[i].running
             \/ MdWorkerRun(i) /\ mdWorkers_[i].running
          /\ mdWorkers_'[i].epoch = hist.runs

\* C36: a worker of a run is started, publishes or sends only after every
\* configured PD subscriber, MD listener, PD publisher and MD sender has been
\* registered in that run; and when no stop() has been requested they are all
\* still registered then, so that the request reaches the matching listeners.
C36_NoSendBeforeAllRegistered ==
    [][WorkerStartsOrSends =>
          /\ hist.registered = ConfiguredEndpoints
          /\ (hist.stops = 0 => EverythingRegistered)]_vars

\* The PD worker has published while run() is still starting the MD workers,
\* and no stop() was called
C36_Witness ==
    /\ hist.stops = 0
    /\ simPc["main"] = "r_start_md"
    /\ metrics_.counted = {hist.runs}
    /\ EverythingRegistered

-----------------------------------------------------------------------------
(* Properties of the handlers that call back *)

\* Thread t is in the delivery part of send_md_request, where handlers run
Delivering(t) == pc[t] \in {"md_deliver", "md_nested", "md_synth"}

-----------------------------------------------------------------------------
(* Pending sessions *)

\* A reply to the request has been taken from the table: a send_md_reply for
\* its id has finished or is about to run the reply handler
Answered(r) ==
    requests[r].answered \/ ReplyInFlight(requests[r].message.sessionId)

\* The send_md_request that made request r has not yet passed its erase
InsideRequest(r) ==
    \E t \in Threads :
        /\ mdCall[t].op = "send_md_request" /\ mdCall[t].req = r
        /\ pc[t] \in {"md_deliver", "md_nested", "md_synth", "md_erase"}

\* Requests since the last shutdown that wait for a reply, of the senders
\* with expectReply = true
UnansweredOfReplyExpecting ==
    { r \in DOMAIN requests :
         requests[r].expectReply /\ ~requests[r].dropped /\ ~Answered(r) }

\* The same for the senders registered with a reply handler, which are the
\* ones line 139 records a session for; the request of a sender with
\* expectReply = false waits until its own call has erased the session
UnansweredOfHandlerOwners ==
    { r \in DOMAIN requests :
         /\ requests[r].handler # NoHandler
         /\ ~requests[r].dropped
         /\ ~Answered(r)
         /\ requests[r].expectReply \/ InsideRequest(r) }

SessionsMatchHandlerOwners ==
    Cardinality(DOMAIN mdSessions_) = Cardinality(UnansweredOfHandlerOwners)

\* The step is a shutdown(): every table is empty afterwards
ShutdownStep ==
    /\ mdSessions_' = EmptyMap /\ mdSenders_' = EmptyMap /\ mdListeners_' = <<>>
    /\ pdPublishers_' = EmptyMap /\ pdSubscribers_' = <<>>
    /\ UNCHANGED pc

\* The step is the locked block of a send_md_reply for this session id,
\* called directly or by a listener's handler
ReplyStepFor(sessionId) ==
    \E t \in Threads :
       \/ /\ pc[t] = "idle" /\ pc'[t] = "reply_invoke"
          /\ mdCall'[t].request.sessionId = sessionId
       \/ /\ pc[t] = "md_deliver"
          /\ mdCall[t].request.sessionId = sessionId

\* The step is the erase that follows the synthetic reply of the request
\* with this session id
OwnEraseStepFor(sessionId) ==
    \E t \in Threads :
       /\ pc[t] = "md_erase" /\ pc'[t] = "md_done"
       /\ mdCall[t].request.sessionId = sessionId

SessionRemovedOnlyByReplyEraseShutdown ==
    \A sessionId \in DOMAIN mdSessions_ :
        sessionId \notin DOMAIN mdSessions_' =>
            \/ ReplyStepFor(sessionId)
            \/ OwnEraseStepFor(sessionId)
            \/ ShutdownStep

\* C38: a pending session leaves the table only in a send_md_reply for its
\* id, in the erase after the synthetic reply of its own request, or in
\* shutdown(); and in every state the number of pending sessions is the
\* number of requests made since the last shutdown() by senders with
\* expectReply = true that have not been answered.
C38_PendingSessionsAreUnansweredRequests ==
    /\ [][SessionRemovedOnlyByReplyEraseShutdown]_vars
    /\ [](Cardinality(DOMAIN mdSessions_) = Cardinality(UnansweredOfReplyExpecting))

\* The removal rule and the count over the senders with a reply handler
PendingSessionsOfHandlerOwners ==
    /\ [][SessionRemovedOnlyByReplyEraseShutdown]_vars
    /\ []SessionsMatchHandlerOwners

-----------------------------------------------------------------------------
(* Sent and received packets *)

\* The registered publishers whose packets the subscriber gets
MatchingPublishers(subscriber) ==
    { n \in DOMAIN pdPublishers_ :
         matches_pd_subscription(subscriber, pdPublishers_[n].config) }

RECURSIVE PacketsSentBy(_)
\* packetsSent of the publishers of a set, added up
PacketsSentBy(names) ==
    IF names = {} THEN 0
    ELSE LET n == CHOOSE x \in names : TRUE
         IN  Reported(rm_, "pdPublishers", n, "packetsSent")
                + PacketsSentBy(names \ {n})

PacketsReceived(subscriber) ==
    Reported(rm_, "pdSubscribers", subscriber.name, "packetsReceived")

\* C39: during a run with no stop() requested, for every PD subscriber the
\* packets it has received are at least the packets sent by the publishers
\* that match it, and exceed them by at most the number of those publishers.
C39_ReceivedWithinSentBounds ==
    \A i \in DOMAIN pdSubscribers_ :
        LET subscriber == pdSubscribers_[i].config
            publishers == MatchingPublishers(subscriber)
        IN  /\ PacketsSentBy(publishers) <= PacketsReceived(subscriber)
            /\ PacketsReceived(subscriber)
                  <= PacketsSentBy(publishers) + Cardinality(publishers)

\* Two publishers match a subscriber, one packet of each has been recorded
\* as sent, and both are inside publish_pd with the receive recorded
C39_Witness ==
    \E i \in DOMAIN pdSubscribers_ :
        LET subscriber == pdSubscribers_[i].config
            publishers == MatchingPublishers(subscriber)
        IN  /\ Cardinality(publishers) = 2
            /\ PacketsSentBy(publishers) = 2
            /\ PacketsReceived(subscriber) = 4
            /\ \A t \in Threads : pc[t] \in {"pd_deliver", "pd_done"}

-----------------------------------------------------------------------------
(* stop_simulator *)

\* stop_simulator has found the simulator marked running or start-pending
\* and has not yet returned
StoppingSimulator == web_.pc.http \in {"stop_call", "stop_join", "stop_final"}

\* stop_simulator has returned true
StopSimulatorReturned == web_.pc.http = "returned" /\ web_.stopped = "true"

\* C40: a stop_simulator that finds the simulator marked running or
\* start-pending returns, also when the simulator thread is still inside
\* run(); when it has returned the thread it joined has ended, both flags
\* are false and active_simulator_ is empty.
C40_StopSimulatorReturns ==
    /\ StoppingSimulator ~> StopSimulatorReturned
    /\ [](StopSimulatorReturned =>
             /\ web_.simulator_thread_ = "joined"
             /\ web_.pc.worker = "w_done"
             /\ ~web_.simulator_running_
             /\ ~web_.simulator_start_pending_
             /\ ~web_.active_simulator_)

\* The flags and the thread when stop_simulator has returned true
StopSimulatorLeavesNothing ==
    StopSimulatorReturned =>
        /\ web_.simulator_thread_ = "joined"
        /\ web_.pc.worker = "w_done"
        /\ ~web_.simulator_running_
        /\ ~web_.simulator_start_pending_
        /\ ~web_.active_simulator_

\* stop_simulator waits in its join while run() is blocked in its wait with
\* running_ true, and no stop() is in progress or to come
JoinNeverReturns ==
    /\ web_.pc.http = "stop_join"
    /\ simPc["main"] = "r_wait"
    /\ running_
    /\ simPc["s1"] = "idle"

====
